---- MODULE Spec2Model ----
(***************************************************************************)
(* Model of the quokka provisioning core: the plugin Registry              *)
(* (internal/plugin/registry.go), the projects Store (store.go) and the    *)
(* orchestration Service (internal/projects/service.go).                   *)
(*                                                                         *)
(* Strings are tuples of one-character strings, so that lengths and the    *)
(* unix_name pattern are computed as the validator computes them.          *)
(* A call of the API is run by a caller (a goroutine serving a request):   *)
(* Service.Create takes several steps (persist, registry lookup and        *)
(* Provision call, Provision return), the other operations are one step.   *)
(* The HTTP Handler (handler.go) answers a call in the step it returns.    *)
(*                                                                         *)
(* Specifications:                                                         *)
(*   Spec          Create, Get, Delete and Register of two goroutines      *)
(*   SpecRegistry  Register, Get and List of the Registry alone            *)
(*   SpecCrud      Create, Get, List, Update and Delete of one client      *)
(*   SpecDeadline  Create under a clock, with caller deadlines and cancel  *)
(*   SpecParse     Plugin.parseResourceID on the outputs of the tool       *)
(*   SpecConfig    config.FromEnv on the environments of the process       *)
(*   SpecLock      Register, Get and List step by step under Registry.mu   *)
(*   SpecServing   Create calls on a registry filled before they start     *)
(*   SpecFrame     Updates of one project under the wall clock             *)
(***************************************************************************)
EXTENDS Integers, Sequences, FiniteSets, TLC

VARIABLES
    rows,       \* table projects: uuid -> row (Store, SPIKE.md schema)
    issued,     \* number of uuids uuid.New() has handed out
    plugins,    \* Registry.plugins: name -> implementation
    pc,         \* per caller: position in the running call
    op,         \* per caller: the call and its arguments
    proj,       \* per caller: the *Project held / returned (<<>> is nil)
    err,        \* per caller: the error returned (Nil is nil)
    trace,      \* per caller: the collaborator calls made by the running call
    provCall,   \* per caller: the Provision call made (<<>> none): plugin, request
    provErr,    \* per caller: the error Provision returned (Nil: none)
    logs,       \* per caller: the warnings the running call wrote to s.log
    deleted,    \* history: the uuids whose rows a Delete call has removed
    resp,       \* per caller: the HTTP response the Handler wrote for the call
    listed,     \* per caller: the projects Service.List returned
    found,      \* per caller: what Registry.Get or Registry.List returned
    now,        \* the clock the deadlines of contexts run on, in seconds
    ctx,        \* per caller: the context.Context the caller passes to its calls
    provCtx,    \* per caller: the context Create derived for Provision (<<>> none)
    cliOutput,  \* the output of the command-line tool that Provision ran
    resourceID, \* what parseResourceID made of cliOutput
    env,        \* the environment of the process: variable -> <<>> or <<value>>
    cfg,        \* what config.FromEnv returned (<<>> before it is called)
    mu,         \* Registry.mu, the sync.RWMutex of the registry
    wall,       \* the wall clock time.Now() reads for the timestamps of a row
    running,    \* per caller: a Provision call it started has not returned
    provisions  \* history: the number of Provision calls made

vars == <<rows, issued, plugins, pc, op, proj, err, trace, provCall,
          provErr, logs, deleted, resp, listed, found, now, ctx, provCtx,
          cliOutput, resourceID, env, cfg, mu, wall, running, provisions>>

----------------------------------------------------------------------------
(* Bounds of the model *)

MaxProjects == 2

\* the time units the clock runs for
MaxClock == 32

\* the lines of an output of the command-line tool
MaxLines == 3

\* the time units the wall clock runs for
MaxWall == 3

\* the goroutines that run calls of the API side by side, and all goroutines
Callers == {"c1", "c2"}
Goroutines == Callers \cup {"c3"}
UUIDs == 1..MaxProjects

----------------------------------------------------------------------------
(* Program constants *)

MinNameLen == 3
MaxNameLen == 255
MinUnixNameLen == 3
MaxUnixNameLen == 100

\* Service.List: "if limit <= 0 { limit = 100 }"
DefaultListLimit == 100
\* Handler.List: h.service.List(r.Context(), 100, 0)
HandlerListLimit == 100
HandlerListOffset == 0

\* Service.Create: context.WithTimeout(ctx, 30*time.Second)
ProvisionTimeout == 30

\* net/http status codes the Handler writes
StatusOK == 200
StatusCreated == 201
StatusNoContent == 204
StatusBadRequest == 400
StatusNotFound == 404
StatusConflict == 409
StatusInternalServerError == 500

ProxmoxName == "proxmox"

Nil == "nil"
ErrProjectNotFound == "ErrProjectNotFound"
ErrProjectExists == "ErrProjectExists"
ErrInvalidUnixName == "ErrInvalidUnixName"
ErrInvalidProjectID == "ErrInvalidProjectID"
ErrNoRows == "pgx.ErrNoRows"
ErrPluginNotFound == "ErrPluginNotFound"
ErrAlreadyRegistered == "plugin already registered"
ValidationErrors == "validator.ValidationErrors"
ErrDb == "db error"
ErrInvalidRowCount == "OFFSET must not be negative"
ErrProvision == "provision error"
ErrRegistry == "registry error"

----------------------------------------------------------------------------
(* Strings *)

Rep(c, n) == [i \in 1..n |-> c]

LowerLetters ==
    {"a","b","c","d","e","f","g","h","i","j","k","l","m",
     "n","o","p","q","r","s","t","u","v","w","x","y","z"}
Digits == {"0","1","2","3","4","5","6","7","8","9"}

\* unixNameRegex = ^[a-z0-9-]+$ : one or more characters, each of the class
\* (in Go, $ matches at the end of the text only, not before a final newline)
MatchUnixName(s) ==
    /\ Len(s) >= 1
    /\ \A i \in 1..Len(s) : s[i] \in LowerLetters \cup Digits \cup {"-"}

----------------------------------------------------------------------------
(* Requests and validation (types.go, Service.validateCreate) *)

\* One FieldError of validator.ValidationErrors: the field and the first of
\* its tags that fails (the validator stops at a field's first failing tag).
FieldError(field, tag) == <<[Field |-> field, Tag |-> tag]>>

\* Name: validate:"required,min=3,max=255" (lengths are counted in runes)
ValidateName(name) ==
    IF name = <<>> THEN FieldError("Name", "required")
    ELSE IF Len(name) < MinNameLen THEN FieldError("Name", "min")
    ELSE IF Len(name) > MaxNameLen THEN FieldError("Name", "max")
    ELSE <<>>

\* UnixName: validate:"required,min=3,max=100,unix_name"
ValidateUnixName(unixName) ==
    IF unixName = <<>> THEN FieldError("UnixName", "required")
    ELSE IF Len(unixName) < MinUnixNameLen THEN FieldError("UnixName", "min")
    ELSE IF Len(unixName) > MaxUnixNameLen THEN FieldError("UnixName", "max")
    ELSE IF ~MatchUnixName(unixName) THEN FieldError("UnixName", "unix_name")
    ELSE <<>>

\* s.validate.Struct(req): the field errors in field order; Description has no tag
ValidateStruct(req) == ValidateName(req.Name) \o ValidateUnixName(req.UnixName)

(* faulty variant: every validation failure of the UnixName field is reported as *)
(* ErrInvalidUnixName, whatever the failing tag                            *)
validateCreateAnyUnixNameTag(req) ==
    LET errs == ValidateStruct(req) IN
    IF errs = <<>> THEN Nil
    ELSE IF \E i \in 1..Len(errs) : errs[i].Field = "UnixName"
         THEN ErrInvalidUnixName
         ELSE ValidationErrors

(* faulty variant: validation accepts every request *)
validateCreateAcceptsAll(req) == Nil

validateCreate(req) ==
    LET errs == ValidateStruct(req) IN
    IF errs = <<>> THEN Nil
    ELSE IF \E i \in 1..Len(errs) :
                errs[i].Field = "UnixName" /\ errs[i].Tag = "unix_name"
         THEN ErrInvalidUnixName
         ELSE ValidationErrors

Request(name, unixName, description) ==
    [Name |-> name, UnixName |-> unixName, Description |-> description]

\* UpdateProjectRequest: three pointers (<<>> is nil)
UpdateRequest(name, description, active) ==
    [Name |-> name, Description |-> description, Active |-> active]
NoUpdate == UpdateRequest(<<>>, <<>>, <<>>)

SAlpha == <<"a","l","p","h","a">>
SValidName == <<"V","a","l","i","d"," ","N","a","m","e">>
SBadName == <<"b","a","d","_","n","a","m","e">>

\* The requests callers send. Three pass validation: two with the same slug
\* (at the lower length limits), one at the upper length limits. The others
\* fail it, one for each way: the slug against the pattern, too short, too
\* long, against the pattern and too short, ending in a newline, empty; the
\* name too short, too long; both fields.
CreateRequests ==
    { Request(<<"A","l","p","h","a">>, <<"a","-","1">>, <<>>),
      Request(<<"a","b","c">>, <<"a","-","1">>, <<"d">>),
      Request(Rep("n", MaxNameLen), Rep("a", MaxUnixNameLen), <<>>),
      Request(SValidName, SBadName, <<>>),
      Request(SValidName, <<"a","b">>, <<>>),
      Request(SValidName, Rep("a", MaxUnixNameLen + 1), <<>>),
      Request(SValidName, <<"A","_">>, <<>>),
      Request(SValidName, <<"a","b","c","\n">>, <<>>),
      Request(SValidName, <<>>, <<>>),
      Request(<<"a","b">>, SAlpha, <<>>),
      Request(Rep("n", MaxNameLen + 1), SAlpha, <<>>),
      Request(<<"a","b">>, SBadName, <<>>) }

----------------------------------------------------------------------------
(* Project identifiers: uuid.Parse and uuid.UUID.String *)

\* The text of an identifier: a uuid in canonical (lower-case) form, the same
\* uuid in upper case (uuid.Parse accepts it), or text that is no uuid.
IDText(n, form) == [n |-> n, form |-> form]
NoID == IDText(0, "empty")
BadID == IDText(0, "malformed")

\* uuid.UUID(row.ID.Bytes).String(): always the canonical form
UUIDString(u) == IDText(u, "canonical")

\* uuid.Parse(id)
UUIDParse(id) ==
    IF id.form \in {"canonical", "upper"}
    THEN [uuid |-> id.n, err |-> Nil]
    ELSE [uuid |-> 0, err |-> "invalid UUID"]

\* the identifiers callers send, and those sent when the database fails
IDInputs == {UUIDString(u) : u \in UUIDs} \cup {IDText(1, "upper"), BadID}
FaultIDInputs == {UUIDString(1)}

----------------------------------------------------------------------------
(* The Store over table projects (store.go, queries.sql, SPIKE.md schema) *)

\* pgtype.Text of a description: NULL when the request's description is ""
DescriptionParam(description) ==
    IF description # <<>>
    THEN [String |-> description, Valid |-> TRUE]
    ELSE [String |-> <<>>, Valid |-> FALSE]

\* time.Now(), as a timestamp of a row: the reading of the wall clock
TimeNow == wall

\* db.CreateProjectParams without the id
CreateProjectParams(req) ==
    [name |-> req.Name, unix_name |-> req.UnixName,
     description |-> DescriptionParam(req.Description),
     active |-> TRUE,
     created_at |-> TimeNow, updated_at |-> TimeNow]

\* mapToDomainProject
mapToDomainProject(u, row) ==
    [ID |-> UUIDString(u), Name |-> row.name, UnixName |-> row.unix_name,
     Description |-> row.description.String, Active |-> row.active,
     CreatedAt |-> row.created_at, UpdatedAt |-> row.updated_at]

(* faulty variant: the table without its UNIQUE constraint on unix_name *)
UniqueViolationNever(table, unixName) == FALSE

\* unix_name VARCHAR(100) UNIQUE NOT NULL: the insert is refused (23505) when
\* a row already has the unix_name
UniqueViolation(table, unixName) ==
    \E u \in DOMAIN table : table[u].unix_name = unixName

\* Store.Create on a database that answers: the table afterwards, the project
\* and the error returned
StoreCreate(table, u, req) ==
    IF UniqueViolation(table, req.UnixName)
    THEN [rows |-> table, proj |-> <<>>, err |-> ErrProjectExists]
    ELSE LET row == CreateProjectParams(req) IN
         [rows |-> [v \in DOMAIN table \cup {u} |->
                        IF v = u THEN row ELSE table[v]],
          proj |-> <<mapToDomainProject(u, row)>>, err |-> Nil]

\* Store.GetByID on a database that answers
StoreGetByID(table, id) ==
    LET parsed == UUIDParse(id) IN
    IF parsed.err # Nil THEN [proj |-> <<>>, err |-> ErrInvalidProjectID]
    ELSE IF parsed.uuid \notin DOMAIN table THEN [proj |-> <<>>, err |-> ErrNoRows]
    ELSE [proj |-> <<mapToDomainProject(parsed.uuid, table[parsed.uuid])>>,
          err |-> Nil]

(* faulty variant: Delete does not look at the number of rows affected *)
StoreDeleteIgnoresRowsAffected(table, id) ==
    LET parsed == UUIDParse(id) IN
    IF parsed.err # Nil THEN [rows |-> table, err |-> ErrInvalidProjectID]
    ELSE [rows |-> [v \in DOMAIN table \ {parsed.uuid} |-> table[v]],
          err |-> Nil]

\* Store.Delete on a database that answers
StoreDelete(table, id) ==
    LET parsed == UUIDParse(id) IN
    IF parsed.err # Nil THEN [rows |-> table, err |-> ErrInvalidProjectID]
    ELSE IF parsed.uuid \notin DOMAIN table THEN [rows |-> table, err |-> ErrNoRows]
    ELSE [rows |-> [v \in DOMAIN table \ {parsed.uuid} |-> table[v]],
          err |-> Nil]

\* db.UpdateProjectParams without the id: Column2 is "" and Description,
\* Active are invalid (NULL) where the request has nil
UpdateProjectParams(upd) ==
    [UpdatedAt |-> TimeNow,
     Column2 |-> IF upd.Name # <<>> THEN upd.Name[1] ELSE <<>>,
     Description |-> IF upd.Description # <<>>
                     THEN [String |-> upd.Description[1], Valid |-> TRUE]
                     ELSE [String |-> <<>>, Valid |-> FALSE],
     Active |-> IF upd.Active # <<>>
                THEN [Bool |-> upd.Active[1], Valid |-> TRUE]
                ELSE [Bool |-> FALSE, Valid |-> FALSE]]

(* faulty variant: the statement leaves updated_at as it is *)
UpdateProjectRowKeepsUpdatedAt(row, params) ==
    [row EXCEPT
        !.name = IF params.Column2 # <<>> THEN params.Column2 ELSE @,
        !.description = IF params.Description.Valid THEN params.Description ELSE @,
        !.active = IF params.Active.Valid THEN params.Active.Bool ELSE @]

\* UPDATE projects SET name = COALESCE(NULLIF($2, ''), name),
\* description = COALESCE(description param, description),
\* active = COALESCE(active param, active), updated_at = $3
UpdateProjectRow(row, params) ==
    [row EXCEPT
        !.name = IF params.Column2 # <<>> THEN params.Column2 ELSE @,
        !.description = IF params.Description.Valid THEN params.Description ELSE @,
        !.active = IF params.Active.Valid THEN params.Active.Bool ELSE @,
        !.updated_at = params.UpdatedAt]

\* Store.Update on a database that answers (no row: pgx.ErrNoRows)
StoreUpdate(table, id, upd) ==
    LET parsed == UUIDParse(id) IN
    IF parsed.err # Nil
    THEN [rows |-> table, proj |-> <<>>, err |-> ErrInvalidProjectID]
    ELSE IF parsed.uuid \notin DOMAIN table
    THEN [rows |-> table, proj |-> <<>>, err |-> ErrNoRows]
    ELSE LET row == UpdateProjectRow(table[parsed.uuid], UpdateProjectParams(upd)) IN
         [rows |-> [table EXCEPT ![parsed.uuid] = row],
          proj |-> <<mapToDomainProject(parsed.uuid, row)>>, err |-> Nil]

\* the uuids of the table, newest row first (ORDER BY created_at DESC: the
\* uuids are numbered in the order of the inserts)
NewestFirst(table) ==
    [i \in 1..Cardinality(DOMAIN table) |->
        CHOOSE u \in DOMAIN table :
            Cardinality({v \in DOMAIN table : v > u}) = i - 1]

\* Store.List on a database that answers: LIMIT limit OFFSET offset, which
\* PostgreSQL refuses when one of them is negative
StoreList(table, limit, offset) ==
    IF limit < 0 \/ offset < 0
    THEN [list |-> <<>>, err |-> ErrInvalidRowCount]
    ELSE LET ids == NewestFirst(table)
             last == IF offset + limit < Len(ids) THEN offset + limit ELSE Len(ids)
         IN  [list |-> [i \in 1..(IF last > offset THEN last - offset ELSE 0) |->
                          mapToDomainProject(ids[offset + i], table[ids[offset + i]])],
              err |-> Nil]

----------------------------------------------------------------------------
(* The plugin Registry (registry.go) *)

PluginImpls == {"pveA", "pveB", "forge"}
NoPlugin == "no plugin"

\* what a caller has of the registry before Get or List returns
NoFound == [plugin |-> NoPlugin, msg |-> <<>>, list |-> {}]

\* Plugin.Name(): two implementations carry the name "proxmox"
PluginName(impl) == IF impl \in {"pveA", "pveB"} THEN ProxmoxName ELSE "forge-ovh"

(* faulty variant: Register reports the duplicate but has already overwritten *)
RegistryRegisterOverwrites(reg, impl) ==
    LET name == PluginName(impl) IN
    [plugins |-> [n \in DOMAIN reg \cup {name} |->
                      IF n = name THEN impl ELSE reg[n]],
     err |-> IF name \in DOMAIN reg THEN ErrAlreadyRegistered ELSE Nil]

(* faulty variant: registering a name drops the entries of the other names *)
RegistryRegisterEvicts(reg, impl) ==
    LET name == PluginName(impl) IN
    IF name \in DOMAIN reg
    THEN [plugins |-> reg, err |-> ErrAlreadyRegistered]
    ELSE [plugins |-> [n \in {name} |-> impl], err |-> Nil]

\* Registry.Register, inside r.mu.Lock()
RegistryRegister(reg, impl) ==
    LET name == PluginName(impl) IN
    IF name \in DOMAIN reg
    THEN [plugins |-> reg, err |-> ErrAlreadyRegistered]
    ELSE [plugins |-> [n \in DOMAIN reg \cup {name} |->
                           IF n = name THEN impl ELSE reg[n]],
          err |-> Nil]

\* the text of fmt.Errorf("%w: %s", ErrPluginNotFound, name), in its parts
NotFoundMessage(name) == <<ErrPluginNotFound, ": ", name>>

(* faulty variant: the error of a failed Get does not say which name was asked for *)
RegistryGetLosesName(reg, name) ==
    IF name \notin DOMAIN reg
    THEN [plugin |-> NoPlugin, err |-> ErrPluginNotFound, name |-> name,
          msg |-> <<ErrPluginNotFound>>]
    ELSE [plugin |-> reg[name], err |-> Nil, name |-> name, msg |-> <<>>]

\* Registry.Get, inside r.mu.RLock(): err is the error the result wraps
\* (what errors.Is matches), msg the text of the error
RegistryGet(reg, name) ==
    IF name \notin DOMAIN reg
    THEN [plugin |-> NoPlugin, err |-> ErrPluginNotFound, name |-> name,
          msg |-> NotFoundMessage(name)]
    ELSE [plugin |-> reg[name], err |-> Nil, name |-> name, msg |-> <<>>]

\* Registry.List, inside r.mu.RLock(): the registered plugins (in the order
\* of a map iteration, which is none)
RegistryList(reg) == {reg[n] : n \in DOMAIN reg}

----------------------------------------------------------------------------
(* The output of the command-line tool (proxmox.go, Plugin.parseResourceID) *)

\* the index of the first c in s from position i on, Len(s) + 1 when none
RECURSIVE Index(_, _, _)
Index(s, c, i) ==
    IF i > Len(s) THEN Len(s) + 1
    ELSE IF s[i] = c THEN i
    ELSE Index(s, c, i + 1)

\* strings.Split(s, sep) for a separator of one character
RECURSIVE Split(_, _)
Split(s, sep) ==
    LET i == Index(s, sep, 1) IN
    IF i > Len(s) THEN <<s>>
    ELSE <<SubSeq(s, 1, i - 1)>> \o Split(SubSeq(s, i + 1, Len(s)), sep)

UpperToLower ==
    [c \in {"I", "D", "X"} |-> CASE c = "I" -> "i" [] c = "D" -> "d" [] c = "X" -> "x"]

\* strings.ToLower(s), on the letters the outputs are written in
ToLower(s) ==
    [i \in 1..Len(s) |-> IF s[i] \in DOMAIN UpperToLower THEN UpperToLower[s[i]] ELSE s[i]]

\* strings.HasPrefix(s, prefix)
HasPrefix(s, prefix) ==
    Len(s) >= Len(prefix) /\ SubSeq(s, 1, Len(prefix)) = prefix

\* strings.SplitN(l, ":", 2)[1] of a line that holds a colon
AfterFirstColon(l) == SubSeq(l, Index(l, ":", 1) + 1, Len(l))

\* the white space of strings.TrimSpace
WhiteSpace == {" ", "\t", "\n", "\r", "\f"}

\* strings.TrimSpace(s)
RECURSIVE TrimSpace(_)
TrimSpace(s) ==
    IF s = <<>> THEN s
    ELSE IF s[1] \in WhiteSpace THEN TrimSpace(SubSeq(s, 2, Len(s)))
    ELSE IF s[Len(s)] \in WhiteSpace THEN TrimSpace(SubSeq(s, 1, Len(s) - 1))
    ELSE s

IDPrefix == <<"i","d",":">>

\* the loop of parseResourceID over the lines from the i-th on
RECURSIVE ScanLines(_, _)
ScanLines(lines, i) ==
    IF i > Len(lines) THEN <<>>
    ELSE IF HasPrefix(ToLower(lines[i]), IDPrefix)
         THEN TrimSpace(AfterFirstColon(lines[i]))
         ELSE ScanLines(lines, i + 1)

(* faulty variant: the prefix is compared as it is written, without ToLower *)
parseResourceIDCaseSensitive(output) ==
    LET lines == Split(output, "\n")
        hit == {i \in 1..Len(lines) : HasPrefix(lines[i], IDPrefix)}
    IN  IF hit = {} THEN <<>>
        ELSE TrimSpace(AfterFirstColon(
                 lines[CHOOSE i \in hit : \A j \in hit : i <= j]))

\* Plugin.parseResourceID(output)
parseResourceID(output) == ScanLines(Split(output, "\n"), 1)

\* strings.Join(lines, "\n"): the output that has these lines
RECURSIVE JoinLines(_)
JoinLines(lines) ==
    IF Len(lines) = 1 THEN lines[1]
    ELSE lines[1] \o <<"\n">> \o JoinLines(Tail(lines))

\* the lines the tool prints: without an id, with an id after "id:" in
\* either case, with and without blanks around it, with blanks in it, with a
\* second colon, with an empty id, with the prefix not at the start, empty,
\* and ending in a carriage return
CliLines ==
    { <<"o","k">>,
      <<"d","o","n","e">>,
      <<"n","o"," ","i","d"," ","h","e","r","e">>,
      <<"I","D",":"," ","3","2","1">>,
      <<"i","d",":","7">>,
      <<"i","D",":"," ","a"," ","b"," ">>,
      <<" ","i","d",":"," ","7">>,
      <<"i","d">>,
      <<"x",":","i","d",":"," ","7">>,
      <<"i","d",":",":","7">>,
      <<"i","d",":">>,
      <<>>,
      <<"I","d",":","\t","9","\r">> }

\* the outputs of at most MaxLines lines
CliOutputs ==
    UNION { {JoinLines(ls) : ls \in [1..n -> CliLines]} : n \in 1..MaxLines }

----------------------------------------------------------------------------
(* Contexts (context.Context as Service.Create uses it) *)

Canceled == "context canceled"
DeadlineExceeded == "context deadline exceeded"

\* a context: its deadline (ok tells whether it has one), whether it can be
\* cancelled, whether its cancel function was called, and at what time
Context(deadline, ok, cancel) ==
    [deadline |-> deadline, ok |-> ok, cancel |-> cancel,
     cancelled |-> FALSE, at |-> 0]

\* context.Background(): no deadline, never cancelled
Background == Context(0, FALSE, FALSE)

\* r.Context() of a request: no deadline, cancelled when the client goes away
RequestContext == Context(0, FALSE, TRUE)

\* context.WithDeadline(context.Background(), d)
DeadlineContext(d) == Context(d, TRUE, TRUE)

\* ctx.Err() at time t of a context without a parent
ContextErr(c, t) ==
    IF c.cancelled THEN Canceled
    ELSE IF c.ok /\ t >= c.deadline THEN DeadlineExceeded
    ELSE Nil

(* faulty variant: the derived context takes the deadline of a parent that has one *)
WithTimeoutUncapped(parent, t, timeout) ==
    [created |-> t,
     deadline |-> IF parent.ok THEN parent.deadline ELSE t + timeout,
     ok |-> TRUE, cancelled |-> FALSE]

\* context.WithTimeout(parent, timeout) called at time t: the child's
\* deadline is the earlier of the parent's and t + timeout
WithTimeout(parent, t, timeout) ==
    [created |-> t,
     deadline |-> IF parent.ok /\ parent.deadline < t + timeout
                  THEN parent.deadline ELSE t + timeout,
     ok |-> TRUE, cancelled |-> FALSE]

\* Err() at time t of a context derived from parent: the child is done when
\* its cancel function was called, when its parent is done or when its own
\* deadline has passed
DerivedErr(child, parent, t) ==
    IF child.cancelled THEN Canceled
    ELSE IF ContextErr(parent, t) # Nil THEN ContextErr(parent, t)
    ELSE ContextErr(child, t)

----------------------------------------------------------------------------
(* The orchestration Service (service.go) *)

\* an entry of a call's trace: the collaborator called and what it returned
\* (Provision is entered when it is called: its result is "called")
Event(call, res) == [call |-> call, res |-> res]

\* s.store.List(ctx, limit, offset) and what it returned
ListEvent(limit, offset, res) ==
    [call |-> "store.List", res |-> res, limit |-> limit, offset |-> offset]

(* faulty variant: a valid request goes to the registry and Provision first *)
AfterValidateSkipsPersist(verr) == IF verr = Nil THEN "lookup" ELSE "returned"

\* Create, after validateCreate: "if err != nil { return nil, err }"
AfterValidate(verr) == IF verr = Nil THEN "persist" ELSE "returned"

(* faulty variant: Create goes on to the registry whatever store.Create returned *)
AfterStoreCreateIgnoresError(serr) == "lookup"

(* faulty variant: only a slug that is taken stops Create *)
AfterStoreCreateOnExistsOnly(serr) ==
    IF serr = ErrProjectExists THEN "returned" ELSE "lookup"

\* Create, after s.store.Create: "if err != nil { return nil, err }"
AfterStoreCreate(serr) == IF serr = Nil THEN "lookup" ELSE "returned"

(* faulty variant: only "not found" counts as no provider *)
AfterRegistryGetNotFoundOnly(gerr) ==
    IF gerr = ErrPluginNotFound THEN "returned" ELSE "provisioning"

\* Create, after s.registry.Get("proxmox"): "if ...; err == nil { ... }"
AfterRegistryGet(gerr) == IF gerr = Nil THEN "provisioning" ELSE "returned"

(* faulty variant: "go proxmoxPlugin.Provision(...)", Create goes on at once *)
AfterProvisionCallInBackground == "returned"

\* Create, at "proxmoxPlugin.Provision(provCtx, ...)": a plain call, the
\* goroutine of Create is inside Provision until Provision returns
AfterProvisionCall == "provisioning"

ZeroProject ==
    [ID |-> NoID, Name |-> <<>>, UnixName |-> <<>>, Description |-> <<>>,
     Active |-> FALSE, CreatedAt |-> 0, UpdatedAt |-> 0]

\* the project a caller holds (the zero Project stands for a nil pointer)
Held(p) == IF proj[p] = <<>> THEN ZeroProject ELSE proj[p][1]

(* faulty variant: the request carries the slug as the name and a template *)
NewProvisionRequestFromSlug(project) ==
    [ProjectID |-> project.ID, ProjectName |-> project.UnixName,
     Template |-> <<"d","e","f","a","u","l","t">>, Resources |-> {}]

\* plugin.ProvisionRequest{ProjectID: project.ID, ProjectName: project.Name}
NewProvisionRequest(project) ==
    [ProjectID |-> project.ID, ProjectName |-> project.Name,
     Template |-> <<>>, Resources |-> {}]

(* faulty variant: a missing provider fails the call *)
CreateWithoutProviderFails(project, gerr) == [proj |-> <<>>, err |-> gerr]

\* Create when registry.Get returned an error: "return project, nil"
CreateWithoutProvider(project, gerr) == [proj |-> project, err |-> Nil]

WarnEntry(project, perr) ==
    [level |-> "WARN", msg |-> "provisioning failed",
     project_id |-> project.ID, error |-> perr]

(* faulty variant: the provisioning error is the return value of Create *)
CreateFinishReturnsError(table, project, perr) ==
    [rows |-> table,
     proj |-> IF perr = Nil THEN project ELSE <<>>,
     err |-> perr,
     logs |-> IF perr = Nil THEN <<>> ELSE <<WarnEntry(project[1], perr)>>]

(* faulty variant: a provisioning failure deletes the persisted row again *)
CreateFinishRollsBack(table, project, perr) ==
    [rows |-> IF perr = Nil THEN table
              ELSE StoreDelete(table, project[1].ID).rows,
     proj |-> project,
     err |-> Nil,
     logs |-> IF perr = Nil THEN <<>> ELSE <<WarnEntry(project[1], perr)>>]

(* faulty variant: the provisioning error is dropped without a log entry *)
CreateFinishSilent(table, project, perr) ==
    [rows |-> table, proj |-> project, err |-> Nil, logs |-> <<>>]

\* Create once Provision has returned perr: the warning on failure, then
\* "return project, nil"; the store is not touched
CreateFinish(table, project, perr) ==
    [rows |-> table,
     proj |-> project,
     err |-> Nil,
     logs |-> IF perr = Nil THEN <<>> ELSE <<WarnEntry(project[1], perr)>>]

(* faulty variant: a malformed id is reported as a project that is not found *)
NormalizeStoreErrorConflates(serr) ==
    IF serr = ErrInvalidProjectID THEN ErrProjectNotFound
    ELSE IF serr = ErrNoRows THEN ErrProjectNotFound
    ELSE serr

(* faulty variant: every store error but the malformed id is a project not found *)
NormalizeStoreErrorAllNotFound(serr) ==
    IF serr = ErrInvalidProjectID THEN serr
    ELSE ErrProjectNotFound

\* Get, Update, Delete: the error returned for a store error
NormalizeStoreError(serr) ==
    IF serr = ErrInvalidProjectID THEN serr
    ELSE IF serr = ErrNoRows THEN ErrProjectNotFound
    ELSE serr

\* Service.Get on a database that answers
ServiceGet(table, id) ==
    LET r == StoreGetByID(table, id) IN
    IF r.err # Nil THEN [proj |-> <<>>, err |-> NormalizeStoreError(r.err)]
    ELSE r

(* faulty variant: Service.List replaces a negative limit only *)
ListLimitNegativeOnly(limit) == IF limit < 0 THEN DefaultListLimit ELSE limit

\* Service.List: "if limit <= 0 { limit = 100 }"
ListLimit(limit) == IF limit <= 0 THEN DefaultListLimit ELSE limit

\* Service.List on a database that answers
ServiceList(table, limit, offset) == StoreList(table, ListLimit(limit), offset)

\* Service.Update on a database that answers
ServiceUpdate(table, id, upd) ==
    LET r == StoreUpdate(table, id, upd) IN
    IF r.err # Nil
    THEN [rows |-> r.rows, proj |-> <<>>, err |-> NormalizeStoreError(r.err)]
    ELSE r

(* faulty variant: Delete goes on to deprovision what was provisioned *)
ServiceDeleteCascades(table, id) ==
    LET r == StoreDelete(table, id) IN
    [rows |-> r.rows, err |-> NormalizeStoreError(r.err),
     calls |-> IF r.err # Nil THEN <<Event("store.Delete", r.err)>>
               ELSE <<Event("store.Delete", r.err), Event("registry.Get", Nil),
                      Event("Deprovision", Nil)>>]

\* Service.Delete on a database that answers: the table afterwards, the
\* error returned and the calls made, which are the one of s.store.Delete
ServiceDelete(table, id) ==
    LET r == StoreDelete(table, id) IN
    [rows |-> r.rows, err |-> NormalizeStoreError(r.err),
     calls |-> <<Event("store.Delete", r.err)>>]

----------------------------------------------------------------------------
(* The HTTP Handler (handler.go, platform.RespondError) *)

NoResponse == [status |-> 0, code |-> "", message |-> "", body |-> <<>>]

\* platform.RespondError(w, status, code, message)
RespondError(status, code, message) ==
    [status |-> status, code |-> code, message |-> message, body |-> <<>>]

\* platform.RespondValidationError(w, err)
RespondValidationError(e) == RespondError(StatusBadRequest, "VALIDATION_FAILED", e)

\* w.WriteHeader(status) and json.NewEncoder(w).Encode(body)
RespondBody(status, body) ==
    [status |-> status, code |-> "", message |-> "", body |-> body]

GenericMessage == "internal server error"

(* faulty variant: the default branch answers with the text of the error *)
HandlerCreateLeaksError(project, e) ==
    IF e # Nil
    THEN IF e = ValidationErrors THEN RespondValidationError(e)
         ELSE IF e = ErrProjectExists
              THEN RespondError(StatusConflict, "PROJECT_EXISTS", e)
         ELSE IF e = ErrInvalidUnixName
              THEN RespondError(StatusBadRequest, "INVALID_UNIX_NAME", e)
         ELSE RespondError(StatusInternalServerError, "INTERNAL_ERROR", e)
    ELSE RespondBody(StatusCreated, project)

\* Handler.Create, once h.service.Create has returned
HandlerCreate(project, e) ==
    IF e # Nil
    THEN IF e = ValidationErrors THEN RespondValidationError(e)
         ELSE IF e = ErrProjectExists
              THEN RespondError(StatusConflict, "PROJECT_EXISTS", e)
         ELSE IF e = ErrInvalidUnixName
              THEN RespondError(StatusBadRequest, "INVALID_UNIX_NAME", e)
         ELSE RespondError(StatusInternalServerError, "INTERNAL_ERROR", GenericMessage)
    ELSE RespondBody(StatusCreated, project)

\* Handler.Create when the body is no JSON: the service is not called
HandlerInvalidJSON == RespondError(StatusBadRequest, "INVALID_JSON", "invalid JSON")

\* the error switch of Handler.GetByID, Handler.Update and Handler.Delete
HandlerIDError(e) ==
    IF e = ErrProjectNotFound
    THEN RespondError(StatusNotFound, "PROJECT_NOT_FOUND", "project not found")
    ELSE IF e = ErrInvalidProjectID
    THEN RespondError(StatusBadRequest, "INVALID_PROJECT_ID", "invalid project id")
    ELSE RespondError(StatusInternalServerError, "INTERNAL_ERROR", GenericMessage)

(* faulty variant: GetByID has no branch for ErrInvalidProjectID *)
HandlerGetByIDNoInvalidID(project, e) ==
    IF e # Nil
    THEN IF e = ErrProjectNotFound
         THEN RespondError(StatusNotFound, "PROJECT_NOT_FOUND", "project not found")
         ELSE RespondError(StatusInternalServerError, "INTERNAL_ERROR", GenericMessage)
    ELSE RespondBody(StatusOK, project)

\* Handler.GetByID, once h.service.Get has returned (no WriteHeader: 200)
HandlerGetByID(project, e) ==
    IF e # Nil THEN HandlerIDError(e) ELSE RespondBody(StatusOK, project)

\* Handler.Update, once h.service.Update has returned
HandlerUpdate(project, e) ==
    IF e # Nil THEN HandlerIDError(e) ELSE RespondBody(StatusOK, project)

\* Handler.Delete, once h.service.Delete has returned
HandlerDelete(e) ==
    IF e # Nil THEN HandlerIDError(e) ELSE RespondBody(StatusNoContent, <<>>)

\* Handler.List, once h.service.List has returned
HandlerList(projects, e) ==
    IF e # Nil
    THEN RespondError(StatusInternalServerError, "INTERNAL_ERROR", GenericMessage)
    ELSE RespondBody(StatusOK, projects)

\* the calls of the Service that the Handler makes: it calls List with the
\* page (100, 0) only
HandlerCalls(o) ==
    \/ o.name \in {"Create", "Get", "Update", "Delete"}
    \/ o.name = "List" /\ o.limit = HandlerListLimit /\ o.offset = HandlerListOffset

\* the response to call o that returned project, e and list
HandlerRespond(o, project, e, list) ==
    CASE o.name = "Create, invalid JSON" -> HandlerInvalidJSON
      [] ~HandlerCalls(o) -> NoResponse
      [] o.name = "Create" -> HandlerCreate(project, e)
      [] o.name = "Get" -> HandlerGetByID(project, e)
      [] o.name = "Update" -> HandlerUpdate(project, e)
      [] o.name = "Delete" -> HandlerDelete(e)
      [] o.name = "List" -> HandlerList(list, e)

----------------------------------------------------------------------------
(* Configuration from the environment (config.go) *)

EnvNames == {"LOG_LEVEL", "DEBUG"}

\* os.Getenv(key): the value of the variable, "" when it is not set
Getenv(e, key) == IF e[key] = <<>> THEN "" ELSE e[key][1]

\* Default()
Default == [LogLevel |-> "info", Debug |-> FALSE]

\* Config{}
ZeroConfig == [LogLevel |-> "", Debug |-> FALSE]

\* fmt.Errorf("invalid LOG_LEVEL: %w", err)
ErrInvalidLogLevel == "invalid LOG_LEVEL"
\* fmt.Errorf("%q is not valid; choose: debug, info, warn, error", level)
ErrNotValid == "is not valid"

\* validateLogLevel: the keys of the map valid, compared as they are written
ValidLogLevels == {"debug", "info", "warn", "error"}
validateLogLevel(level) == IF level \notin ValidLogLevels THEN ErrNotValid ELSE Nil

(* faulty variant: a refused LOG_LEVEL leaves the defaults in the Config returned *)
FromEnvKeepsDefault(e) ==
    LET level == Getenv(e, "LOG_LEVEL") IN
    IF level # "" /\ validateLogLevel(level) # Nil
    THEN [cfg |-> Default, err |-> ErrInvalidLogLevel]
    ELSE [cfg |-> [LogLevel |-> IF level # "" THEN level ELSE Default.LogLevel,
                   Debug |-> Getenv(e, "DEBUG") = "true"],
          err |-> Nil]

\* FromEnv: the Config and the error returned
FromEnv(e) ==
    LET level == Getenv(e, "LOG_LEVEL") IN
    IF level # "" /\ validateLogLevel(level) # Nil
    THEN [cfg |-> ZeroConfig, err |-> ErrInvalidLogLevel]
    ELSE [cfg |-> [LogLevel |-> IF level # "" THEN level ELSE Default.LogLevel,
                   Debug |-> Getenv(e, "DEBUG") = "true"],
          err |-> Nil]

\* the values the variables are set to: the accepted levels, the empty
\* string, and texts that are near an accepted one
LogLevelValues == ValidLogLevels \cup {"", "verbose", "INFO", "Debug", " info", "warning"}
DebugValues == {"", "true", "false", "TRUE", "True", "1", "t"}
EnvValues(key) == IF key = "LOG_LEVEL" THEN LogLevelValues ELSE DebugValues

----------------------------------------------------------------------------
(* sync.RWMutex, as Registry.mu (registry.go) *)

NoGoroutine == ""

\* the zero RWMutex: w is the goroutine that holds the writers' mutex (the
\* writer that waits for the lock or has it), locked whether it has the lock,
\* readers the goroutines that hold the lock for reading
RWMutex == [w |-> NoGoroutine, locked |-> FALSE, readers |-> {}]

\* Lock, first half: the writers' mutex is free; the writer announces itself
CanAnnounce(m) == m.w = NoGoroutine

\* Lock, second half: the readers inside have left
CanLock(m, p) == m.w = p /\ m.readers = {}

(* faulty variant: a reader does not look for a writer *)
CanRLockBesideWriter(m) == TRUE

\* RLock blocks while a writer has the lock or waits for it
CanRLock(m) == m.w = NoGoroutine

(* faulty variant: Register takes the lock for reading *)
RegisterLocksForReading == "RLock"

\* Register: r.mu.Lock(); Get and List: r.mu.RLock()
RegisterLocks == "Lock"
LookupLocks == "RLock"

\* r.plugins[name] = p
MapStore(reg, name, impl) ==
    [n \in DOMAIN reg \cup {name} |-> IF n = name THEN impl ELSE reg[n]]

----------------------------------------------------------------------------
(* Calls *)

NoRequest == Request(<<>>, <<>>, <<>>)

\* a call and its arguments: the CreateProjectRequest, the id, the plugin
\* registered, the UpdateProjectRequest, the page and the registry key
Op(name, req, id, impl) ==
    [name |-> name, req |-> req, id |-> id, impl |-> impl,
     upd |-> NoUpdate, limit |-> 0, offset |-> 0, key |-> ""]
NoOp == Op("none", NoRequest, NoID, NoPlugin)
OpUpdate(id, upd) == [Op("Update", NoRequest, id, NoPlugin) EXCEPT !.upd = upd]
OpList(limit, offset) ==
    [Op("List", NoRequest, NoID, NoPlugin) EXCEPT !.limit = limit, !.offset = offset]
OpRegistryGet(key) == [Op("Registry.Get", NoRequest, NoID, NoPlugin) EXCEPT !.key = key]

\* the Handler answers when the call it made returns; the calls made straight
\* to the Service or the Registry get no response
Responds(p) ==
    resp' = [resp EXCEPT ![p] =
                IF pc'[p] = "returned"
                THEN HandlerRespond(op'[p], proj'[p], err'[p], listed'[p])
                ELSE NoResponse]

\* the state the process starts in, the registry aside
InitState ==
    /\ rows = <<>>
    /\ issued = 0
    /\ pc = [p \in Goroutines |-> "idle"]
    /\ op = [p \in Goroutines |-> NoOp]
    /\ proj = [p \in Goroutines |-> <<>>]
    /\ err = [p \in Goroutines |-> Nil]
    /\ trace = [p \in Goroutines |-> <<>>]
    /\ provCall = [p \in Goroutines |-> <<>>]
    /\ provErr = [p \in Goroutines |-> Nil]
    /\ logs = [p \in Goroutines |-> <<>>]
    /\ deleted = {}
    /\ resp = [p \in Goroutines |-> NoResponse]
    /\ listed = [p \in Goroutines |-> <<>>]
    /\ found = [p \in Goroutines |-> NoFound]
    /\ now = 0
    /\ ctx = [p \in Goroutines |-> Background]
    /\ provCtx = [p \in Goroutines |-> <<>>]
    /\ cliOutput = <<>>
    /\ resourceID = <<>>
    /\ env = [k \in EnvNames |-> <<>>]
    /\ cfg = <<>>
    /\ mu = RWMutex
    /\ wall = 0
    /\ running = [p \in Goroutines |-> FALSE]
    /\ provisions = 0

\* plugin.NewRegistry(): the registry is empty
Init == plugins = <<>> /\ InitState

\* the registry a Service is made with: main has registered the proxmox
\* plugin before it serves, the tests of the Service register none
InitServing ==
    /\ plugins \in {<<>>, RegistryRegister(<<>>, "pveA").plugins}
    /\ InitState

\* Service.Create is called: validation, before any I/O
CreateCall(p, req) ==
    /\ pc[p] = "idle"
    /\ op' = [op EXCEPT ![p] = Op("Create", req, NoID, NoPlugin)]
    /\ err' = [err EXCEPT ![p] = validateCreate(req)]
    /\ pc' = [pc EXCEPT ![p] = AfterValidate(validateCreate(req))]
    /\ UNCHANGED <<rows, issued, plugins, proj, trace, provCall,
                   provErr, logs, deleted>>
    /\ UNCHANGED <<listed, found, now, ctx, provCtx, cliOutput, resourceID,
                   env, cfg, mu, wall, running, provisions>>
    /\ Responds(p)

\* Handler.Create on a body that does not decode: 400, Service.Create is not
\* called
CreateInvalidJSON(p) ==
    /\ pc[p] = "idle"
    /\ op' = [op EXCEPT ![p] = Op("Create, invalid JSON", NoRequest, NoID, NoPlugin)]
    /\ pc' = [pc EXCEPT ![p] = "returned"]
    /\ UNCHANGED <<rows, issued, plugins, proj, err, trace, provCall,
                   provErr, logs, deleted>>
    /\ UNCHANGED <<listed, found, now, ctx, provCtx, cliOutput, resourceID,
                   env, cfg, mu, wall, running, provisions>>
    /\ Responds(p)

\* Service.Create: s.store.Create(ctx, req), the database answers
CreatePersist(p) ==
    /\ pc[p] = "persist"
    /\ LET r == StoreCreate(rows, issued + 1, op[p].req) IN
       /\ r.err = Nil => issued < MaxProjects
       /\ rows' = r.rows
       /\ issued' = IF r.err = Nil THEN issued + 1 ELSE issued
       /\ proj' = [proj EXCEPT ![p] = r.proj]
       /\ err' = [err EXCEPT ![p] = r.err]
       /\ pc' = [pc EXCEPT ![p] = AfterStoreCreate(r.err)]
       /\ trace' = [trace EXCEPT ![p] = Append(@, Event("store.Create", r.err))]
    /\ UNCHANGED <<plugins, op, provCall, provErr, logs, deleted>>
    /\ UNCHANGED <<listed, found, now, ctx, provCtx, cliOutput, resourceID,
                   env, cfg, mu, wall, running, provisions>>
    /\ Responds(p)

\* Service.Create: s.store.Create fails with an error that is no uniqueness
\* violation (connection lost, context cancelled): "return nil, err"
CreatePersistFails(p) ==
    /\ pc[p] = "persist"
    /\ proj' = [proj EXCEPT ![p] = <<>>]
    /\ err' = [err EXCEPT ![p] = ErrDb]
    /\ pc' = [pc EXCEPT ![p] = AfterStoreCreate(ErrDb)]
    /\ trace' = [trace EXCEPT ![p] = Append(@, Event("store.Create", ErrDb))]
    /\ UNCHANGED <<rows, issued, plugins, op, provCall, provErr, logs,
                   deleted>>
    /\ UNCHANGED <<listed, found, now, ctx, provCtx, cliOutput, resourceID,
                   env, cfg, mu, wall, running, provisions>>
    /\ Responds(p)

\* Service.Create: s.registry.Get("proxmox") and, when it is found, the call
\* of Provision with the request built from the persisted project
CreateLookup(p) ==
    /\ pc[p] = "lookup"
    /\ LET g == RegistryGet(plugins, ProxmoxName) IN
       IF AfterRegistryGet(g.err) = "provisioning"
       THEN /\ pc' = [pc EXCEPT ![p] = AfterProvisionCall]
            /\ provCall' = [provCall EXCEPT ![p] =
                  <<[plugin |-> g.plugin, req |-> NewProvisionRequest(Held(p))]>>]
            /\ provCtx' = [provCtx EXCEPT ![p] =
                  <<WithTimeout(ctx[p], now, ProvisionTimeout)>>]
            /\ trace' = [trace EXCEPT ![p] =
                  @ \o <<Event("registry.Get", g.err), Event("Provision", "called")>>]
            /\ running' = [running EXCEPT ![p] = TRUE]
            /\ provisions' = provisions + 1
            /\ UNCHANGED <<proj, err>>
       ELSE /\ pc' = [pc EXCEPT ![p] = AfterRegistryGet(g.err)]
            /\ proj' = [proj EXCEPT ![p] = CreateWithoutProvider(proj[p], g.err).proj]
            /\ err' = [err EXCEPT ![p] = CreateWithoutProvider(proj[p], g.err).err]
            /\ trace' = [trace EXCEPT ![p] = Append(@, Event("registry.Get", g.err))]
            /\ UNCHANGED <<provCall, provCtx, running, provisions>>
    /\ UNCHANGED <<rows, issued, plugins, op, provErr, logs, deleted>>
    /\ UNCHANGED <<listed, found, now, ctx, cliOutput, resourceID,
                   env, cfg, mu, wall>>
    /\ Responds(p)

\* Service.Create: s.registry.Get("proxmox") returns an error that is not
\* ErrPluginNotFound, and no plugin (a pluginRegistry of another kind)
CreateLookupFails(p, gerr) ==
    /\ pc[p] = "lookup"
    /\ IF AfterRegistryGet(gerr) = "provisioning"
       THEN /\ pc' = [pc EXCEPT ![p] = AfterProvisionCall]
            /\ provCall' = [provCall EXCEPT ![p] =
                  <<[plugin |-> NoPlugin, req |-> NewProvisionRequest(Held(p))]>>]
            /\ provCtx' = [provCtx EXCEPT ![p] =
                  <<WithTimeout(ctx[p], now, ProvisionTimeout)>>]
            /\ trace' = [trace EXCEPT ![p] =
                  @ \o <<Event("registry.Get", gerr), Event("Provision", "called")>>]
            /\ running' = [running EXCEPT ![p] = TRUE]
            /\ provisions' = provisions + 1
            /\ UNCHANGED <<proj, err>>
       ELSE /\ pc' = [pc EXCEPT ![p] = AfterRegistryGet(gerr)]
            /\ proj' = [proj EXCEPT ![p] = CreateWithoutProvider(proj[p], gerr).proj]
            /\ err' = [err EXCEPT ![p] = CreateWithoutProvider(proj[p], gerr).err]
            /\ trace' = [trace EXCEPT ![p] = Append(@, Event("registry.Get", gerr))]
            /\ UNCHANGED <<provCall, provCtx, running, provisions>>
    /\ UNCHANGED <<rows, issued, plugins, op, provErr, logs, deleted>>
    /\ UNCHANGED <<listed, found, now, ctx, cliOutput, resourceID,
                   env, cfg, mu, wall>>
    /\ Responds(p)

\* Service.Create: Provision returns perr, and Create returns
ProvisionReturns(p, perr) ==
    /\ pc[p] = "provisioning"
    /\ LET f == CreateFinish(rows, proj[p], perr) IN
       /\ rows' = f.rows
       /\ proj' = [proj EXCEPT ![p] = f.proj]
       /\ err' = [err EXCEPT ![p] = f.err]
       /\ logs' = [logs EXCEPT ![p] = @ \o f.logs]
    /\ provErr' = [provErr EXCEPT ![p] = perr]
    /\ provCtx' = [provCtx EXCEPT ![p] = <<[@[1] EXCEPT !.cancelled = TRUE]>>]
    /\ running' = [running EXCEPT ![p] = FALSE]
    /\ pc' = [pc EXCEPT ![p] = "returned"]
    /\ UNCHANGED <<issued, plugins, op, trace, provCall, deleted>>
    /\ UNCHANGED <<listed, found, now, ctx, cliOutput, resourceID,
                   env, cfg, mu, wall, provisions>>
    /\ Responds(p)

\* Service.Get, the database answers
Get(p, id) ==
    /\ pc[p] = "idle"
    /\ op' = [op EXCEPT ![p] = Op("Get", NoRequest, id, NoPlugin)]
    /\ proj' = [proj EXCEPT ![p] = ServiceGet(rows, id).proj]
    /\ err' = [err EXCEPT ![p] = ServiceGet(rows, id).err]
    /\ trace' = [trace EXCEPT ![p] = <<Event("store.GetByID", StoreGetByID(rows, id).err)>>]
    /\ pc' = [pc EXCEPT ![p] = "returned"]
    /\ UNCHANGED <<rows, issued, plugins, provCall, provErr, logs, deleted>>
    /\ UNCHANGED <<listed, found, now, ctx, provCtx, cliOutput, resourceID,
                   env, cfg, mu, wall, running, provisions>>
    /\ Responds(p)

\* Service.Get, the query fails
GetFails(p, id) ==
    /\ pc[p] = "idle"
    /\ UUIDParse(id).err = Nil
    /\ op' = [op EXCEPT ![p] = Op("Get", NoRequest, id, NoPlugin)]
    /\ err' = [err EXCEPT ![p] = NormalizeStoreError(ErrDb)]
    /\ trace' = [trace EXCEPT ![p] = <<Event("store.GetByID", ErrDb)>>]
    /\ pc' = [pc EXCEPT ![p] = "returned"]
    /\ UNCHANGED <<rows, issued, plugins, proj, provCall, provErr, logs,
                   deleted>>
    /\ UNCHANGED <<listed, found, now, ctx, provCtx, cliOutput, resourceID,
                   env, cfg, mu, wall, running, provisions>>
    /\ Responds(p)

\* Service.Delete, the database answers
Delete(p, id) ==
    /\ pc[p] = "idle"
    /\ op' = [op EXCEPT ![p] = Op("Delete", NoRequest, id, NoPlugin)]
    /\ rows' = ServiceDelete(rows, id).rows
    /\ err' = [err EXCEPT ![p] = ServiceDelete(rows, id).err]
    /\ deleted' = IF ServiceDelete(rows, id).err = Nil
                  THEN deleted \cup {UUIDParse(id).uuid} ELSE deleted
    /\ trace' = [trace EXCEPT ![p] = ServiceDelete(rows, id).calls]
    /\ pc' = [pc EXCEPT ![p] = "returned"]
    /\ UNCHANGED <<issued, plugins, proj, provCall, provErr, logs>>
    /\ UNCHANGED <<listed, found, now, ctx, provCtx, cliOutput, resourceID,
                   env, cfg, mu, wall, running, provisions>>
    /\ Responds(p)

\* Service.Delete, the statement fails
DeleteFails(p, id) ==
    /\ pc[p] = "idle"
    /\ UUIDParse(id).err = Nil
    /\ op' = [op EXCEPT ![p] = Op("Delete", NoRequest, id, NoPlugin)]
    /\ err' = [err EXCEPT ![p] = NormalizeStoreError(ErrDb)]
    /\ trace' = [trace EXCEPT ![p] = <<Event("store.Delete", ErrDb)>>]
    /\ pc' = [pc EXCEPT ![p] = "returned"]
    /\ UNCHANGED <<rows, issued, plugins, proj, provCall, provErr, logs,
                   deleted>>
    /\ UNCHANGED <<listed, found, now, ctx, provCtx, cliOutput, resourceID,
                   env, cfg, mu, wall, running, provisions>>
    /\ Responds(p)

\* Service.Update, the database answers
Update(p, id, upd) ==
    /\ pc[p] = "idle"
    /\ op' = [op EXCEPT ![p] = OpUpdate(id, upd)]
    /\ rows' = ServiceUpdate(rows, id, upd).rows
    /\ proj' = [proj EXCEPT ![p] = ServiceUpdate(rows, id, upd).proj]
    /\ err' = [err EXCEPT ![p] = ServiceUpdate(rows, id, upd).err]
    /\ trace' = [trace EXCEPT ![p] =
                    <<Event("store.Update", StoreUpdate(rows, id, upd).err)>>]
    /\ pc' = [pc EXCEPT ![p] = "returned"]
    /\ UNCHANGED <<issued, plugins, provCall, provErr, logs, deleted>>
    /\ UNCHANGED <<listed, found, now, ctx, provCtx, cliOutput, resourceID,
                   env, cfg, mu, wall, running, provisions>>
    /\ Responds(p)

\* Service.Update, the statement fails
UpdateFails(p, id, upd) ==
    /\ pc[p] = "idle"
    /\ UUIDParse(id).err = Nil
    /\ op' = [op EXCEPT ![p] = OpUpdate(id, upd)]
    /\ err' = [err EXCEPT ![p] = NormalizeStoreError(ErrDb)]
    /\ trace' = [trace EXCEPT ![p] = <<Event("store.Update", ErrDb)>>]
    /\ pc' = [pc EXCEPT ![p] = "returned"]
    /\ UNCHANGED <<rows, issued, plugins, proj, provCall, provErr, logs,
                   deleted>>
    /\ UNCHANGED <<listed, found, now, ctx, provCtx, cliOutput, resourceID,
                   env, cfg, mu, wall, running, provisions>>
    /\ Responds(p)

\* Service.List, the database answers
List(p, limit, offset) ==
    /\ pc[p] = "idle"
    /\ op' = [op EXCEPT ![p] = OpList(limit, offset)]
    /\ listed' = [listed EXCEPT ![p] = ServiceList(rows, limit, offset).list]
    /\ err' = [err EXCEPT ![p] = ServiceList(rows, limit, offset).err]
    /\ trace' = [trace EXCEPT ![p] =
                    <<ListEvent(ListLimit(limit), offset,
                                ServiceList(rows, limit, offset).err)>>]
    /\ pc' = [pc EXCEPT ![p] = "returned"]
    /\ UNCHANGED <<rows, issued, plugins, proj, provCall, provErr, logs,
                   deleted>>
    /\ UNCHANGED <<found, now, ctx, provCtx, cliOutput, resourceID,
                   env, cfg, mu, wall, running, provisions>>
    /\ Responds(p)

\* Service.List, the query fails
ListFails(p, limit, offset) ==
    /\ pc[p] = "idle"
    /\ op' = [op EXCEPT ![p] = OpList(limit, offset)]
    /\ err' = [err EXCEPT ![p] = ErrDb]
    /\ trace' = [trace EXCEPT ![p] = <<ListEvent(ListLimit(limit), offset, ErrDb)>>]
    /\ pc' = [pc EXCEPT ![p] = "returned"]
    /\ UNCHANGED <<rows, issued, plugins, proj, provCall, provErr, logs,
                   deleted>>
    /\ UNCHANGED <<listed, found, now, ctx, provCtx, cliOutput, resourceID,
                   env, cfg, mu, wall, running, provisions>>
    /\ Responds(p)

\* the caller makes the context of its next call
WithContext(p, c) ==
    /\ pc[p] = "idle"
    /\ ctx[p] # c
    /\ ctx' = [ctx EXCEPT ![p] = c]
    /\ UNCHANGED <<rows, issued, plugins, pc, op, proj, err, trace, provCall,
                   provErr, logs, deleted, resp, listed, found, now, provCtx,
                   cliOutput, resourceID,
                   env, cfg, mu, wall, running, provisions>>

\* the caller's cancellation signal fires while its call runs
Cancel(p) ==
    /\ pc[p] \notin {"idle", "returned"}
    /\ ctx[p].cancel /\ ~ctx[p].cancelled
    /\ ctx' = [ctx EXCEPT ![p] = [@ EXCEPT !.cancelled = TRUE, !.at = now]]
    /\ UNCHANGED <<rows, issued, plugins, pc, op, proj, err, trace, provCall,
                   provErr, logs, deleted, resp, listed, found, now, provCtx,
                   cliOutput, resourceID,
                   env, cfg, mu, wall, running, provisions>>

\* a time unit passes
Tick ==
    /\ now < MaxClock
    /\ now' = now + 1
    /\ UNCHANGED <<rows, issued, plugins, pc, op, proj, err, trace, provCall,
                   provErr, logs, deleted, resp, listed, found, ctx, provCtx,
                   cliOutput, resourceID,
                   env, cfg, mu, wall, running, provisions>>

\* Registry.Register
Register(p, impl) ==
    /\ pc[p] = "idle"
    /\ op' = [op EXCEPT ![p] = Op("Register", NoRequest, NoID, impl)]
    /\ plugins' = RegistryRegister(plugins, impl).plugins
    /\ err' = [err EXCEPT ![p] = RegistryRegister(plugins, impl).err]
    /\ pc' = [pc EXCEPT ![p] = "returned"]
    /\ UNCHANGED <<rows, issued, proj, trace, provCall, provErr, logs,
                   deleted>>
    /\ UNCHANGED <<listed, found, now, ctx, provCtx, cliOutput, resourceID,
                   env, cfg, mu, wall, running, provisions>>
    /\ Responds(p)

\* the names callers look up: those of the plugins and one nobody registers
RegistryKeys == {PluginName(impl) : impl \in PluginImpls} \cup {"missing"}

\* Registry.Get(key), called by p itself
RegistryGetCall(p, key) ==
    /\ pc[p] = "idle"
    /\ op' = [op EXCEPT ![p] = OpRegistryGet(key)]
    /\ LET g == RegistryGet(plugins, key) IN
       /\ found' = [found EXCEPT ![p] =
                       [plugin |-> g.plugin, msg |-> g.msg, list |-> {}]]
       /\ err' = [err EXCEPT ![p] = g.err]
    /\ pc' = [pc EXCEPT ![p] = "returned"]
    /\ UNCHANGED <<rows, issued, plugins, proj, trace, provCall, provErr,
                   logs, deleted>>
    /\ UNCHANGED <<listed, now, ctx, provCtx, cliOutput, resourceID,
                   env, cfg, mu, wall, running, provisions>>
    /\ Responds(p)

\* Registry.List(), called by p itself
RegistryListCall(p) ==
    /\ pc[p] = "idle"
    /\ op' = [op EXCEPT ![p] = Op("Registry.List", NoRequest, NoID, NoPlugin)]
    /\ found' = [found EXCEPT ![p] =
                    [plugin |-> NoPlugin, msg |-> <<>>, list |-> RegistryList(plugins)]]
    /\ pc' = [pc EXCEPT ![p] = "returned"]
    /\ UNCHANGED <<rows, issued, plugins, proj, err, trace, provCall, provErr,
                   logs, deleted>>
    /\ UNCHANGED <<listed, now, ctx, provCtx, cliOutput, resourceID,
                   env, cfg, mu, wall, running, provisions>>
    /\ Responds(p)

\* the caller takes the result; it is free for the next call
Return(p) ==
    /\ pc[p] = "returned"
    /\ pc' = [pc EXCEPT ![p] = "idle"]
    /\ op' = [op EXCEPT ![p] = NoOp]
    /\ proj' = [proj EXCEPT ![p] = <<>>]
    /\ err' = [err EXCEPT ![p] = Nil]
    /\ trace' = [trace EXCEPT ![p] = <<>>]
    /\ provCall' = [provCall EXCEPT ![p] = <<>>]
    /\ provErr' = [provErr EXCEPT ![p] = Nil]
    /\ logs' = [logs EXCEPT ![p] = <<>>]
    /\ provCtx' = [provCtx EXCEPT ![p] = <<>>]
    /\ listed' = [listed EXCEPT ![p] = <<>>]
    /\ found' = [found EXCEPT ![p] = NoFound]
    /\ UNCHANGED <<rows, issued, plugins, deleted>>
    /\ UNCHANGED <<now, ctx, cliOutput, resourceID,
                   env, cfg, mu, wall, running, provisions>>
    /\ Responds(p)

Next ==
    \/ \E p \in Callers, req \in CreateRequests : CreateCall(p, req)
    \/ \E p \in Callers : CreateInvalidJSON(p)
    \/ \E p \in Callers : CreatePersist(p)
    \/ \E p \in Callers : CreatePersistFails(p)
    \/ \E p \in Callers : CreateLookup(p)
    \/ \E p \in Callers, perr \in {Nil, ErrProvision} : ProvisionReturns(p, perr)
    \/ \E p \in Callers, id \in IDInputs : Get(p, id)
    \/ \E p \in Callers, id \in FaultIDInputs : GetFails(p, id)
    \/ \E p \in Callers, id \in IDInputs : Delete(p, id)
    \/ \E p \in Callers, id \in FaultIDInputs : DeleteFails(p, id)
    \/ \E p \in Callers, impl \in PluginImpls : Register(p, impl)
    \/ \E p \in Callers : Return(p)

Spec == Init /\ [][Next]_vars

\* the requests, updates and pages of the calls on stored projects: two
\* requests with slugs of their own; updates of no field, of each field and
\* of the name to ""; pages with a limit below, at and above zero and the
\* Handler's page
CrudRequests ==
    { Request(<<"A","l","p","h","a">>, <<"a","-","1">>, <<>>),
      Request(<<"a","b","c">>, <<"b","-","2">>, <<"d">>) }
UpdateRequests ==
    { NoUpdate,
      UpdateRequest(<< <<"n","e","w">> >>, <<>>, <<>>),
      UpdateRequest(<< <<>> >>, << <<"t","e","x","t">> >>, <<>>),
      UpdateRequest(<<>>, <<>>, <<FALSE>>) }
ListLimits == {-1, 0, 1, HandlerListLimit}
ListOffsets == {-1, HandlerListOffset, 1}

\* the client whose calls on stored projects follow one another
CrudCallers == {"c1"}

\* the errors of a registry that is not the plugin Registry
RegistryFaults == {ErrRegistry}

\* the calls on stored projects: Create, Get, List, Update and Delete one
\* after the other, with and without store failures, with the provider
\* registered at some time or never, or a registry that fails
NextCrud ==
    \/ \E p \in CrudCallers : Register(p, "pveA")
    \/ \E p \in CrudCallers, gerr \in RegistryFaults : CreateLookupFails(p, gerr)
    \/ \E p \in CrudCallers, perr \in {Nil, ErrProvision} : ProvisionReturns(p, perr)
    \/ \E p \in CrudCallers, req \in CrudRequests : CreateCall(p, req)
    \/ \E p \in CrudCallers : CreatePersist(p)
    \/ \E p \in CrudCallers : CreatePersistFails(p)
    \/ \E p \in CrudCallers : CreateLookup(p)
    \/ \E p \in CrudCallers, id \in IDInputs : Get(p, id)
    \/ \E p \in CrudCallers, id \in FaultIDInputs : GetFails(p, id)
    \/ \E p \in CrudCallers, id \in IDInputs, upd \in UpdateRequests : Update(p, id, upd)
    \/ \E p \in CrudCallers, id \in FaultIDInputs : UpdateFails(p, id, NoUpdate)
    \/ \E p \in CrudCallers, l \in ListLimits, o \in ListOffsets : List(p, l, o)
    \/ \E p \in CrudCallers : ListFails(p, HandlerListLimit, HandlerListOffset)
    \/ \E p \in CrudCallers, id \in IDInputs : Delete(p, id)
    \/ \E p \in CrudCallers, id \in FaultIDInputs : DeleteFails(p, id)
    \/ \E p \in CrudCallers : Return(p)

SpecCrud == Init /\ [][NextCrud]_vars

\* the contexts of the caller: none that ends, the request's, and deadlines
\* before, at and after the 30 units of a Provision that starts at 0
CallerContexts ==
    {Background, RequestContext,
     DeadlineContext(10), DeadlineContext(ProvisionTimeout),
     DeadlineContext(ProvisionTimeout + 10)}

DeadlineCallers == {"c1"}
DeadlineRequests == {Request(<<"A","l","p","h","a">>, <<"a","-","1">>, <<>>)}

\* Create under the clock: one caller with a context of its own, a provider
\* registered or not, time passing and the caller cancelling; the store
\* refuses a context that is done
NextDeadline ==
    \/ \E p \in DeadlineCallers : Register(p, "pveA")
    \/ \E p \in DeadlineCallers, c \in CallerContexts : WithContext(p, c)
    \/ \E p \in DeadlineCallers, req \in DeadlineRequests : CreateCall(p, req)
    \/ \E p \in DeadlineCallers : ContextErr(ctx[p], now) = Nil /\ CreatePersist(p)
    \/ \E p \in DeadlineCallers : CreatePersistFails(p)
    \/ \E p \in DeadlineCallers : CreateLookup(p)
    \/ \E p \in DeadlineCallers, perr \in {Nil, ErrProvision} : ProvisionReturns(p, perr)
    \/ \E p \in DeadlineCallers : Cancel(p)
    \/ \E p \in DeadlineCallers : Return(p)
    \/ Tick

SpecDeadline == Init /\ [][NextDeadline]_vars

\* Plugin.Provision has run the tool, which printed output, and parses it
ParseOutput(output) ==
    /\ cliOutput = <<>>
    /\ cliOutput' = output
    /\ resourceID' = parseResourceID(output)
    /\ UNCHANGED <<rows, issued, plugins, pc, op, proj, err, trace, provCall,
                   provErr, logs, deleted, resp, listed, found, now, ctx,
                   provCtx, env, cfg, mu, wall, running, provisions>>

\* parseResourceID on the outputs of the tool
NextParse == \E output \in CliOutputs : ParseOutput(output)

SpecParse == Init /\ [][NextParse]_vars

\* the registry alone: Register, Get and List calls of two goroutines
NextRegistry ==
    \/ \E p \in Callers, impl \in PluginImpls : Register(p, impl)
    \/ \E p \in Callers, key \in RegistryKeys : RegistryGetCall(p, key)
    \/ \E p \in Callers : RegistryListCall(p)
    \/ \E p \in Callers : Return(p)

SpecRegistry == Init /\ [][NextRegistry]_vars

\* os.Setenv(key, value)
Setenv(key, value) ==
    /\ env[key] # <<value>>
    /\ env' = [env EXCEPT ![key] = <<value>>]
    /\ UNCHANGED <<rows, issued, plugins, pc, op, proj, err, trace, provCall,
                   provErr, logs, deleted, resp, listed, found, now, ctx,
                   provCtx, cliOutput, resourceID, cfg, mu, wall, running,
                   provisions>>

\* os.Unsetenv(key)
Unsetenv(key) ==
    /\ env[key] # <<>>
    /\ env' = [env EXCEPT ![key] = <<>>]
    /\ UNCHANGED <<rows, issued, plugins, pc, op, proj, err, trace, provCall,
                   provErr, logs, deleted, resp, listed, found, now, ctx,
                   provCtx, cliOutput, resourceID, cfg, mu, wall, running,
                   provisions>>

\* config.FromEnv() is called in the environment as it is
FromEnvCall ==
    /\ cfg' = <<FromEnv(env)>>
    /\ UNCHANGED <<rows, issued, plugins, pc, op, proj, err, trace, provCall,
                   provErr, logs, deleted, resp, listed, found, now, ctx,
                   provCtx, cliOutput, resourceID, env, mu, wall, running,
                   provisions>>

\* the configuration: the environment is set up, FromEnv reads it
NextConfig ==
    \/ \E key \in EnvNames : \E value \in EnvValues(key) : Setenv(key, value)
    \/ \E key \in EnvNames : Unsetenv(key)
    \/ FromEnvCall

SpecConfig == Init /\ [][NextConfig]_vars

\* where a call of the Registry is once it has the lock
Inside(o) == IF o.name = "Register" THEN "check" ELSE "read"

\* Registry.Register(impl) is called: the goroutine comes to r.mu.Lock()
RegisterBegin(p, impl) ==
    /\ pc[p] = "idle"
    /\ op' = [op EXCEPT ![p] = Op("Register", NoRequest, NoID, impl)]
    /\ pc' = [pc EXCEPT ![p] = RegisterLocks]
    /\ UNCHANGED <<rows, issued, plugins, proj, err, trace, provCall,
                   provErr, logs, deleted, resp, listed, found, now, ctx,
                   provCtx, cliOutput, resourceID, env, cfg, mu, wall,
                   running, provisions>>

\* Registry.Get(key) is called: the goroutine comes to r.mu.RLock()
GetBegin(p, key) ==
    /\ pc[p] = "idle"
    /\ op' = [op EXCEPT ![p] = OpRegistryGet(key)]
    /\ pc' = [pc EXCEPT ![p] = LookupLocks]
    /\ UNCHANGED <<rows, issued, plugins, proj, err, trace, provCall,
                   provErr, logs, deleted, resp, listed, found, now, ctx,
                   provCtx, cliOutput, resourceID, env, cfg, mu, wall,
                   running, provisions>>

\* Registry.List() is called: the goroutine comes to r.mu.RLock()
ListBegin(p) ==
    /\ pc[p] = "idle"
    /\ op' = [op EXCEPT ![p] = Op("Registry.List", NoRequest, NoID, NoPlugin)]
    /\ pc' = [pc EXCEPT ![p] = LookupLocks]
    /\ UNCHANGED <<rows, issued, plugins, proj, err, trace, provCall,
                   provErr, logs, deleted, resp, listed, found, now, ctx,
                   provCtx, cliOutput, resourceID, env, cfg, mu, wall,
                   running, provisions>>

\* r.mu.Lock(): the writer takes the writers' mutex; from now on RLock blocks
MuLock(p) ==
    /\ pc[p] = "Lock"
    /\ CanAnnounce(mu)
    /\ mu' = [mu EXCEPT !.w = p]
    /\ pc' = [pc EXCEPT ![p] = "Lock wait"]
    /\ UNCHANGED <<rows, issued, plugins, op, proj, err, trace, provCall,
                   provErr, logs, deleted, resp, listed, found, now, ctx,
                   provCtx, cliOutput, resourceID, env, cfg, wall, running,
                   provisions>>

\* r.mu.Lock() returns: the readers have left, the writer has the lock
MuLockAcquire(p) ==
    /\ pc[p] = "Lock wait"
    /\ CanLock(mu, p)
    /\ mu' = [mu EXCEPT !.locked = TRUE]
    /\ pc' = [pc EXCEPT ![p] = Inside(op[p])]
    /\ UNCHANGED <<rows, issued, plugins, op, proj, err, trace, provCall,
                   provErr, logs, deleted, resp, listed, found, now, ctx,
                   provCtx, cliOutput, resourceID, env, cfg, wall, running,
                   provisions>>

\* r.mu.RLock() returns
MuRLock(p) ==
    /\ pc[p] = "RLock"
    /\ CanRLock(mu)
    /\ mu' = [mu EXCEPT !.readers = @ \cup {p}]
    /\ pc' = [pc EXCEPT ![p] = Inside(op[p])]
    /\ UNCHANGED <<rows, issued, plugins, op, proj, err, trace, provCall,
                   provErr, logs, deleted, resp, listed, found, now, ctx,
                   provCtx, cliOutput, resourceID, env, cfg, wall, running,
                   provisions>>

\* Register: "if _, exists := r.plugins[name]; exists { return fmt.Errorf(...) }"
RegisterCheck(p) ==
    /\ pc[p] = "check"
    /\ IF PluginName(op[p].impl) \in DOMAIN plugins
       THEN /\ err' = [err EXCEPT ![p] = ErrAlreadyRegistered]
            /\ pc' = [pc EXCEPT ![p] = "unlock"]
       ELSE /\ pc' = [pc EXCEPT ![p] = "write"]
            /\ UNCHANGED err
    /\ UNCHANGED <<rows, issued, plugins, op, proj, trace, provCall, provErr,
                   logs, deleted, resp, listed, found, now, ctx, provCtx,
                   cliOutput, resourceID, env, cfg, mu, wall, running,
                   provisions>>

\* Register: "r.plugins[name] = p; return nil"
RegisterWrite(p) ==
    /\ pc[p] = "write"
    /\ plugins' = MapStore(plugins, PluginName(op[p].impl), op[p].impl)
    /\ err' = [err EXCEPT ![p] = Nil]
    /\ pc' = [pc EXCEPT ![p] = "unlock"]
    /\ UNCHANGED <<rows, issued, op, proj, trace, provCall, provErr, logs,
                   deleted, resp, listed, found, now, ctx, provCtx,
                   cliOutput, resourceID, env, cfg, mu, wall, running,
                   provisions>>

\* Get: "p, exists := r.plugins[name]" and the result made of it
GetRead(p) ==
    /\ pc[p] = "read"
    /\ op[p].name = "Registry.Get"
    /\ LET g == RegistryGet(plugins, op[p].key) IN
       /\ found' = [found EXCEPT ![p] =
                       [plugin |-> g.plugin, msg |-> g.msg, list |-> {}]]
       /\ err' = [err EXCEPT ![p] = g.err]
    /\ pc' = [pc EXCEPT ![p] = "unlock"]
    /\ UNCHANGED <<rows, issued, plugins, op, proj, trace, provCall, provErr,
                   logs, deleted, resp, listed, now, ctx, provCtx, cliOutput,
                   resourceID, env, cfg, mu, wall, running, provisions>>

\* List: "for _, p := range r.plugins { list = append(list, p) }"
ListRead(p) ==
    /\ pc[p] = "read"
    /\ op[p].name = "Registry.List"
    /\ found' = [found EXCEPT ![p] =
                    [plugin |-> NoPlugin, msg |-> <<>>, list |-> RegistryList(plugins)]]
    /\ pc' = [pc EXCEPT ![p] = "unlock"]
    /\ UNCHANGED <<rows, issued, plugins, op, proj, err, trace, provCall,
                   provErr, logs, deleted, resp, listed, now, ctx, provCtx,
                   cliOutput, resourceID, env, cfg, mu, wall, running,
                   provisions>>

\* the deferred r.mu.Unlock() or r.mu.RUnlock() runs, and the call returns
MuUnlock(p) ==
    /\ pc[p] = "unlock"
    /\ mu' = IF p \in mu.readers
             THEN [mu EXCEPT !.readers = @ \ {p}]
             ELSE [mu EXCEPT !.w = NoGoroutine, !.locked = FALSE]
    /\ pc' = [pc EXCEPT ![p] = "returned"]
    /\ UNCHANGED <<rows, issued, plugins, op, proj, err, trace, provCall,
                   provErr, logs, deleted, resp, listed, found, now, ctx,
                   provCtx, cliOutput, resourceID, env, cfg, wall, running,
                   provisions>>

\* the registry under its lock: every goroutine makes one call of Register,
\* Get or List on the registry NewRegistry made, the steps of the calls
\* interleaved
NextLock ==
    \/ \E p \in Goroutines, impl \in PluginImpls : RegisterBegin(p, impl)
    \/ \E p \in Goroutines, key \in RegistryKeys : GetBegin(p, key)
    \/ \E p \in Goroutines : ListBegin(p)
    \/ \E p \in Goroutines : MuLock(p)
    \/ \E p \in Goroutines : MuLockAcquire(p)
    \/ \E p \in Goroutines : MuRLock(p)
    \/ \E p \in Goroutines : RegisterCheck(p)
    \/ \E p \in Goroutines : RegisterWrite(p)
    \/ \E p \in Goroutines : GetRead(p)
    \/ \E p \in Goroutines : ListRead(p)
    \/ \E p \in Goroutines : MuUnlock(p)

SpecLock == Init /\ [][NextLock]_vars

\* Create calls of the goroutines of a Service whose registry was filled
\* with pveA, or left empty, before the first call; the provider registered
\* while calls are served is pveB
NextServing ==
    \/ \E p \in Callers : Register(p, "pveB")
    \/ \E p \in Callers, req \in CrudRequests : CreateCall(p, req)
    \/ \E p \in Callers : CreatePersist(p)
    \/ \E p \in Callers : CreatePersistFails(p)
    \/ \E p \in Callers : CreateLookup(p)
    \/ \E p \in Callers, perr \in {Nil, ErrProvision} : ProvisionReturns(p, perr)
    \/ \E p \in Callers : Return(p)

SpecServing == InitServing /\ [][NextServing]_vars

\* the wall clock moves on
WallTick ==
    /\ wall < MaxWall
    /\ wall' = wall + 1
    /\ UNCHANGED <<rows, issued, plugins, pc, op, proj, err, trace, provCall,
                   provErr, logs, deleted, resp, listed, found, now, ctx,
                   provCtx, cliOutput, resourceID, env, cfg, mu, running,
                   provisions>>

\* the request that makes the project to update, and the updates: those of
\* UpdateRequests and one that gives all three fields, the description as ""
FrameRequests == {Request(<<"a","b","c">>, <<"b","-","2">>, <<"d">>)}
FrameUpdates ==
    UpdateRequests \cup {UpdateRequest(<< <<"x","y","z">> >>, << <<>> >>, <<TRUE>>)}

\* the wall clock has moved on since the rows were written: a statement
\* reaches the database later, by the clock's resolution, than the one before
ClockMovedOn == \A u \in DOMAIN rows : rows[u].updated_at < wall

\* one project under the wall clock: it is created and then updated, a call
\* after the other, each Update reading a later time than the write before
NextFrame ==
    \/ \E p \in CrudCallers, req \in FrameRequests : CreateCall(p, req)
    \/ \E p \in CrudCallers : CreatePersist(p)
    \/ \E p \in CrudCallers : CreateLookup(p)
    \/ \E p \in CrudCallers, id \in IDInputs, upd \in FrameUpdates :
          ClockMovedOn /\ Update(p, id, upd)
    \/ \E p \in CrudCallers : Return(p)
    \/ WallTick

SpecFrame == Init /\ [][NextFrame]_vars

----------------------------------------------------------------------------
(* Properties *)

\* caller p runs or has returned from Service.Create
InCreate(p) == op[p].name = "Create"
CreateReturned(p) == InCreate(p) /\ pc[p] = "returned"

\* the calls of a collaborator in p's trace
Called(p, call) == \E i \in 1..Len(trace[p]) : trace[p][i].call = call
CalledWith(p, call, res) ==
    \E i \in 1..Len(trace[p]) : trace[p][i] = Event(call, res)

\* p's store.Create succeeded: it was the first call made and returned no error
Persisted(p) == InCreate(p) /\ trace[p] # <<>> /\ trace[p][1] = Event("store.Create", Nil)

\* p holds the project the store persisted for its request
HoldsPersisted(p) ==
    /\ proj[p] # <<>>
    /\ proj[p][1].ID.form = "canonical"
    /\ proj[p][1].ID.n \in 1..issued
    /\ proj[p][1].Name = op[p].req.Name
    /\ proj[p][1].UnixName = op[p].req.UnixName
    /\ proj[p][1].Description = op[p].req.Description
    /\ proj[p][1].Active

\* C1: whenever store.Create succeeded, a provider was found and its
\* Provision returned an error, Create returns the persisted project and a nil
\* error; the provisioning error is not what Create returns.
C1_ProvisionErrorNotReturned ==
    \A p \in Callers :
        (CreateReturned(p) /\ Persisted(p) /\ provCall[p] # <<>> /\ provErr[p] # Nil)
            => /\ err[p] = Nil
               /\ err[p] # provErr[p]
               /\ HoldsPersisted(p)

C1_Witness ==
    \E p \in Callers :
        /\ CreateReturned(p) /\ Persisted(p)
        /\ provCall[p] # <<>> /\ provErr[p] = ErrProvision
        /\ err[p] = Nil /\ HoldsPersisted(p)

\* C2: a provisioning failure does not roll back persistence: once Create has
\* returned after a failed Provision, the row of the returned id is in the
\* table unless a Delete call removed it, and Service.Get of the returned id
\* yields the project.
C2_NoRollback ==
    \A p \in Callers :
        (/\ CreateReturned(p) /\ Persisted(p) /\ provErr[p] # Nil
         /\ proj[p] # <<>>
         /\ proj[p][1].ID.n \notin deleted)
            => /\ proj[p][1].ID.n \in DOMAIN rows
               /\ ServiceGet(rows, proj[p][1].ID) = [proj |-> proj[p], err |-> Nil]

\* a Get call made after the failed provisioning has returned the project
C2_Witness ==
    \E p, q \in Callers :
        /\ CreateReturned(p) /\ Persisted(p) /\ provErr[p] = ErrProvision
        /\ proj[p] # <<>>
        /\ pc[q] = "returned" /\ op[q].name = "Get"
        /\ op[q].id = proj[p][1].ID
        /\ err[q] = Nil /\ proj[q] = proj[p]

\* the slug conditions as the claims word them
SlugLengthOK(s) == Len(s) >= MinUnixNameLen /\ Len(s) <= MaxUnixNameLen
NameLengthOK(s) == Len(s) >= MinNameLen /\ Len(s) <= MaxNameLen

RejectedAtValidation(req) ==
    \/ ~NameLengthOK(req.Name)
    \/ ~SlugLengthOK(req.UnixName)
    \/ ~MatchUnixName(req.UnixName)

\* C4: a Create that rejects its request at validation returns an error
\* before any I/O: it makes no call of the store, the registry or Provision,
\* and the step in which it returns leaves the table and the registry as
\* they were.
C4_RejectedBeforeIO ==
    /\ [](\A p \in Callers :
            (InCreate(p) /\ RejectedAtValidation(op[p].req))
                => /\ pc[p] = "returned"
                   /\ err[p] # Nil
                   /\ proj[p] = <<>>
                   /\ trace[p] = <<>>
                   /\ provCall[p] = <<>>)
    /\ [][\A p \in Callers :
            (pc[p] = "idle" /\ InCreate(p)' /\ RejectedAtValidation(op'[p].req))
                => /\ rows' = rows
                   /\ issued' = issued
                   /\ plugins' = plugins]_vars

C4_Witness ==
    \E p, q \in Callers :
        /\ CreateReturned(p) /\ ~NameLengthOK(op[p].req.Name)
        /\ MatchUnixName(op[p].req.UnixName) /\ SlugLengthOK(op[p].req.UnixName)
        /\ err[p] # Nil /\ trace[p] = <<>>
        /\ CreateReturned(q) /\ NameLengthOK(op[q].req.Name)
        /\ ~MatchUnixName(op[q].req.UnixName)
        /\ err[q] # Nil /\ trace[q] = <<>>
        /\ rows # <<>>

\* C5: when the store reports the uniqueness violation, Create fails with
\* ErrProjectExists and returns no project, and neither the registry lookup
\* nor Provision is attempted in that call.
C5_ExistsStopsCreate ==
    \A p \in Callers :
        (InCreate(p) /\ CalledWith(p, "store.Create", ErrProjectExists))
            => /\ pc[p] = "returned"
               /\ err[p] = ErrProjectExists
               /\ proj[p] = <<>>
               /\ ~Called(p, "registry.Get")
               /\ ~Called(p, "Provision")
               /\ provCall[p] = <<>>

\* the violation is reported while a provider is registered
C5_Witness ==
    \E p \in Callers :
        /\ CreateReturned(p)
        /\ CalledWith(p, "store.Create", ErrProjectExists)
        /\ err[p] = ErrProjectExists
        /\ ProxmoxName \in DOMAIN plugins

\* C6: of the Create calls that carry the same valid slug, with no Delete in
\* between, at most one succeeds; a call whose insert the store answers fails
\* with ErrProjectExists exactly when a row with the slug is persisted, and
\* succeeds with a project of that slug otherwise; at every state no two
\* persisted rows share a slug.
C6_SlugUnique ==
    /\ [](/\ \A u, v \in DOMAIN rows :
                u # v => rows[u].unix_name # rows[v].unix_name
          /\ \A p, q \in Callers :
                (/\ p # q /\ Persisted(p) /\ Persisted(q)
                 /\ op[p].req.UnixName = op[q].req.UnixName)
                    => /\ proj[p] # <<>> /\ proj[q] # <<>>
                       /\ proj[p][1].ID # proj[q][1].ID
                       /\ \/ proj[p][1].ID.n \in deleted
                          \/ proj[q][1].ID.n \in deleted)
    /\ [][\A p \in Callers :
            (/\ pc[p] = "persist" /\ pc'[p] # "persist"
             /\ trace'[p][Len(trace'[p])].res # ErrDb)
                => IF \E u \in DOMAIN rows : rows[u].unix_name = op[p].req.UnixName
                   THEN /\ err'[p] = ErrProjectExists
                        /\ pc'[p] = "returned"
                        /\ proj'[p] = <<>>
                        /\ rows' = rows
                   ELSE /\ err'[p] = Nil
                        /\ proj'[p] # <<>>
                        /\ proj'[p][1].UnixName = op[p].req.UnixName
                        /\ proj'[p][1].ID.n \in DOMAIN rows' \ DOMAIN rows
                        /\ rows'[proj'[p][1].ID.n].unix_name = op[p].req.UnixName]_vars

\* two calls with the same slug have returned: one with the project, which
\* is persisted, the other with ErrProjectExists
C6_Witness ==
    \E p, q \in Callers :
        /\ CreateReturned(p) /\ CreateReturned(q)
        /\ op[p].req.UnixName = op[q].req.UnixName
        /\ err[p] = Nil /\ proj[p] # <<>>
        /\ proj[p][1].ID.n \in DOMAIN rows
        /\ err[q] = ErrProjectExists

\* C7: when the registry has no entry for "proxmox", Create makes no
\* Provision call, writes no warning, raises no error for the missing
\* provider and returns the persisted project with a nil error.
C7_MissingProviderSkipped ==
    \A p \in Callers :
        (InCreate(p) /\ CalledWith(p, "registry.Get", ErrPluginNotFound))
            => /\ pc[p] = "returned"
               /\ err[p] = Nil
               /\ HoldsPersisted(p)
               /\ ~Called(p, "Provision")
               /\ provCall[p] = <<>>
               /\ logs[p] = <<>>

\* a registry that holds another plugin only
C7_Witness ==
    \E p \in Callers :
        /\ CreateReturned(p)
        /\ CalledWith(p, "registry.Get", ErrPluginNotFound)
        /\ DOMAIN plugins = {"forge-ovh"}
        /\ err[p] = Nil /\ HoldsPersisted(p)

\* C8: within a Create call, the registry lookup and the Provision call are
\* made only after store.Create of the same call has returned successfully.
C8_PersistBeforeProvision ==
    \A p \in Callers :
        InCreate(p) =>
            /\ \A i \in 1..Len(trace[p]) :
                  trace[p][i].call \in {"registry.Get", "Provision"}
                      => \E j \in 1..(i - 1) : trace[p][j] = Event("store.Create", Nil)
            /\ (provCall[p] # <<>> \/ pc[p] \in {"lookup", "provisioning"})
                  => Persisted(p)

\* Provision is in flight
C8_Witness ==
    \E p \in Callers :
        /\ InCreate(p) /\ pc[p] = "provisioning"
        /\ trace[p] = <<Event("store.Create", Nil), Event("registry.Get", Nil),
                        Event("Provision", "called")>>

\* C9: the ProvisionRequest of a Create call carries the ID and the Name of the
\* project the store returned, an empty Template and no resource hints.  (The
\* store returns the request's name and an id of its own.)
C9_ProvisionRequest ==
    \A p \in Callers :
        (InCreate(p) /\ provCall[p] # <<>>)
            => /\ HoldsPersisted(p)
               /\ provCall[p][1].req.ProjectID = proj[p][1].ID
               /\ provCall[p][1].req.ProjectID = UUIDString(proj[p][1].ID.n)
               /\ provCall[p][1].req.ProjectName = proj[p][1].Name
               /\ provCall[p][1].req.Template = <<>>
               /\ provCall[p][1].req.Resources = {}

\* a request whose project has a description and a name unlike its slug
C9_Witness ==
    \E p \in Callers :
        /\ InCreate(p) /\ provCall[p] # <<>>
        /\ proj[p] # <<>>
        /\ proj[p][1].Description # <<>>
        /\ provCall[p][1].req.ProjectName = <<"a","b","c">>
        /\ provCall[p][1].req.ProjectID = proj[p][1].ID

\* C10: Register of an implementation whose name is already registered
\* returns an error and changes nothing: the registered names are the same
\* and Get of the name returns the implementation registered first.
C10_RegisterNoOverwrite ==
    [][\A p \in Callers : \A impl \in PluginImpls :
        (/\ pc[p] = "idle" /\ pc'[p] = "returned"
         /\ op'[p].name = "Register" /\ op'[p].impl = impl
         /\ PluginName(impl) \in DOMAIN plugins)
            => /\ err'[p] # Nil
               /\ DOMAIN plugins' = DOMAIN plugins
               /\ plugins' = plugins
               /\ RegistryGet(plugins', PluginName(impl)).err = Nil
               /\ RegistryGet(plugins', PluginName(impl)).plugin
                      = plugins[PluginName(impl)]]_vars

\* the second implementation named "proxmox" was refused, the first is kept
C10_Witness ==
    \E p \in Callers :
        /\ pc[p] = "returned" /\ op[p].name = "Register"
        /\ op[p].impl = "pveB" /\ err[p] = ErrAlreadyRegistered
        /\ RegistryGet(plugins, ProxmoxName).plugin = "pveA"

\* p has just returned / has returned from Registry.Get(key)
GotFromRegistry(p, key) ==
    pc[p] = "returned" /\ op[p].name = "Registry.Get" /\ op[p].key = key

\* C11: Registry.Get(name) returns the implementation registered under name
\* when there is one, and otherwise no plugin and an error that wraps
\* ErrPluginNotFound and whose text carries the name asked for; the call
\* leaves the registry as it was.
C11_RegistryGet ==
    [][\A p \in Callers : \A key \in RegistryKeys :
        (pc[p] = "idle" /\ GotFromRegistry(p, key)')
            => /\ plugins' = plugins
               /\ IF key \in DOMAIN plugins
                  THEN /\ err'[p] = Nil
                       /\ found'[p].plugin = plugins[key]
                       /\ PluginName(found'[p].plugin) = key
                  ELSE /\ err'[p] = ErrPluginNotFound
                       /\ found'[p].plugin = NoPlugin
                       /\ \E i \in 1..Len(found'[p].msg) : found'[p].msg[i] = key]_vars

\* one Get that found its plugin, one that did not, in a registry that has
\* entries
C11_Witness ==
    \E p, q \in Callers :
        /\ GotFromRegistry(p, ProxmoxName)
        /\ err[p] = Nil /\ found[p].plugin = "pveB"
        /\ GotFromRegistry(q, "missing")
        /\ err[q] = ErrPluginNotFound
        /\ found[q].msg = <<ErrPluginNotFound, ": ", "missing">>
        /\ DOMAIN plugins = {ProxmoxName, "forge-ovh"}

\* C12: the registry only grows: no step removes or replaces an entry, and
\* once a Get of a name has succeeded, a later Get of the name succeeds and
\* returns the same implementation.
C12_RegistryGrows ==
    /\ [][\A n \in DOMAIN plugins :
            n \in DOMAIN plugins' /\ plugins'[n] = plugins[n]]_vars
    /\ [][\A p, q \in Callers : \A key \in RegistryKeys :
            (/\ GotFromRegistry(p, key) /\ err[p] = Nil
             /\ pc[q] = "idle" /\ GotFromRegistry(q, key)')
                => /\ err'[q] = Nil
                   /\ found'[q].plugin = found[p].plugin]_vars

\* two Gets of "proxmox" have succeeded with the same implementation, and
\* the registry has grown by another name
C12_Witness ==
    \E p, q \in Callers :
        /\ p # q
        /\ GotFromRegistry(p, ProxmoxName) /\ GotFromRegistry(q, ProxmoxName)
        /\ err[p] = Nil /\ err[q] = Nil
        /\ found[p].plugin = "pveA" /\ found[q].plugin = "pveA"
        /\ DOMAIN plugins = {ProxmoxName, "forge-ovh"}

\* p has returned from a call of the Service that goes to the store
Returned(p, names) == pc[p] = "returned" /\ op[p].name \in names

\* what the store returned to p's call: the error of the first call in its
\* trace (a call that made none has Nil)
StoreErr(p) == IF trace[p] = <<>> THEN Nil ELSE trace[p][1].res

\* C13: Service.Get, Update and Delete return the store's ErrInvalidProjectID
\* unchanged and turn the store's pgx.ErrNoRows into ErrProjectNotFound; the
\* call returns ErrInvalidProjectID only for a malformed id and
\* ErrProjectNotFound only for a row that is not there.
C13_IdErrorsDistinct ==
    \A p \in Callers :
        Returned(p, {"Get", "Update", "Delete"})
            => /\ StoreErr(p) = ErrInvalidProjectID <=> err[p] = ErrInvalidProjectID
               /\ StoreErr(p) = ErrNoRows <=> err[p] = ErrProjectNotFound
               /\ err[p] # ErrNoRows
               /\ UUIDParse(op[p].id).err # Nil <=> err[p] = ErrInvalidProjectID
               /\ err[p] = ErrProjectNotFound
                     => /\ UUIDParse(op[p].id).err = Nil
                        /\ UUIDParse(op[p].id).uuid \notin DOMAIN rows

\* an Update of a project that a Delete has removed is "not found"
C13_Witness ==
    \E p \in Callers :
        /\ Returned(p, {"Update"})
        /\ UUIDParse(op[p].id).uuid \in deleted
        /\ StoreErr(p) = ErrNoRows
        /\ err[p] = ErrProjectNotFound

\* the store errors with a meaning for the Service
KnownStoreErrors == {Nil, ErrProjectExists, ErrInvalidProjectID, ErrNoRows}

\* C14: a store error that is no uniqueness violation, no malformed id and
\* no missing row is what Service.Create, Get, List, Update and Delete
\* return, unchanged and without a project, and the Handler answers it with
\* 500 and the generic message.
C14_StoreErrorUnchanged ==
    \A p \in Callers :
        (/\ Returned(p, {"Create", "Get", "List", "Update", "Delete"})
         /\ StoreErr(p) \notin KnownStoreErrors)
            => /\ err[p] = StoreErr(p)
               /\ err[p] \notin {ErrProjectNotFound, ErrProjectExists,
                                 ErrInvalidProjectID, ErrInvalidUnixName}
               /\ proj[p] = <<>>
               /\ listed[p] = <<>>
               /\ HandlerCalls(op[p])
                     => /\ resp[p].status = StatusInternalServerError
                        /\ resp[p].code = "INTERNAL_ERROR"
                        /\ resp[p].message = GenericMessage

\* an Update that the database failed
C14_Witness ==
    \E p \in Callers :
        /\ Returned(p, {"Update"})
        /\ StoreErr(p) = ErrDb /\ err[p] = ErrDb
        /\ resp[p].status = StatusInternalServerError

\* C15: Service.List calls the store with the limit 100 when the caller's
\* limit is zero or negative and with the caller's limit when it is
\* positive, and with the caller's offset; so a List with a limit of zero or
\* less and the offset 0 returns the stored projects.
C15_ListDefaultLimit ==
    \A p \in Callers :
        Returned(p, {"List"})
            => /\ Len(trace[p]) = 1
               /\ trace[p][1].call = "store.List"
               /\ op[p].limit <= 0 => trace[p][1].limit = DefaultListLimit
               /\ op[p].limit > 0 => trace[p][1].limit = op[p].limit
               /\ trace[p][1].offset = op[p].offset
               /\ (err[p] = Nil /\ op[p].limit <= 0 /\ op[p].offset = 0)
                     => Len(listed[p]) = Cardinality(DOMAIN rows)

\* a List with the limit 0 has returned the two stored projects
C15_Witness ==
    \E p \in Callers :
        /\ Returned(p, {"List"})
        /\ op[p].limit = 0 /\ op[p].offset = 0
        /\ trace[p][1].limit = DefaultListLimit
        /\ Len(listed[p]) = 2

\* the context of p's Provision call and the time its cap ends
ProvisionContext(p) == provCtx[p][1]
CapEnd(p) == ProvisionContext(p).created + ProvisionTimeout

\* C16: the context of Provision has a deadline no later than 30 units after
\* it was made, whatever the caller's context allows; when the caller's
\* deadline is later than that or the caller has none, the deadline is 30
\* units after the context was made, and unless the caller cancels the
\* context is live before that time and expired from it on.
C16_ProvisionDeadlineCapped ==
    \A p \in Callers :
        (InCreate(p) /\ provCtx[p] # <<>>)
            => /\ ProvisionContext(p).ok
               /\ ProvisionContext(p).deadline <= CapEnd(p)
               /\ (~ctx[p].ok \/ ctx[p].deadline > CapEnd(p))
                     => /\ ProvisionContext(p).deadline = CapEnd(p)
                        /\ (pc[p] = "provisioning" /\ ~ctx[p].cancelled)
                              => /\ now < CapEnd(p)
                                    => DerivedErr(ProvisionContext(p), ctx[p], now) = Nil
                                 /\ now >= CapEnd(p)
                                    => DerivedErr(ProvisionContext(p), ctx[p], now)
                                          = DeadlineExceeded

\* a Provision that started after time 0 under a caller's deadline later
\* than the cap is in flight at the moment the cap ends
C16_Witness ==
    \E p \in Callers :
        /\ InCreate(p) /\ pc[p] = "provisioning" /\ provCtx[p] # <<>>
        /\ ProvisionContext(p).created > 0
        /\ ctx[p].ok /\ ctx[p].deadline > CapEnd(p)
        /\ now = CapEnd(p)
        /\ DerivedErr(ProvisionContext(p), ctx[p], now) = DeadlineExceeded

\* C17 as claimed: when the caller's cancellation signal fires after
\* persistence succeeded, while Provision is in flight and before the 30
\* units are over, the context given to Provision is not cancelled.
C17_AsClaimed ==
    \A p \in Callers :
        (/\ InCreate(p) /\ pc[p] = "provisioning" /\ Persisted(p)
         /\ ctx[p].cancelled
         /\ ctx[p].at > ProvisionContext(p).created
         /\ now < ProvisionContext(p).deadline)
            => DerivedErr(ProvisionContext(p), ctx[p], now) = Nil

\* C18: Handler.GetByID answers ErrInvalidProjectID with 400 and the code
\* INVALID_PROJECT_ID, a row the store did not find with 404, every other
\* error with 500, and 200 exactly when Service.Get returned a project, which
\* is the body.
C18_GetByIDStatus ==
    \A p \in Callers :
        Returned(p, {"Get"})
            => /\ err[p] = ErrInvalidProjectID
                     => /\ resp[p].status = StatusBadRequest
                        /\ resp[p].code = "INVALID_PROJECT_ID"
               /\ StoreErr(p) = ErrNoRows => resp[p].status = StatusNotFound
               /\ err[p] \notin {Nil, ErrInvalidProjectID, ErrProjectNotFound}
                     => resp[p].status = StatusInternalServerError
               /\ resp[p].status = StatusOK <=> (err[p] = Nil /\ proj[p] # <<>>)
               /\ resp[p].status = StatusOK => resp[p].body = proj[p]
               /\ resp[p].status \in {StatusOK, StatusBadRequest, StatusNotFound,
                                      StatusInternalServerError}

\* a malformed id answered with 400 and an unknown id answered with 404
C18_Witness ==
    \E p, q \in Callers :
        /\ Returned(p, {"Get"}) /\ op[p].id = BadID
        /\ resp[p].status = StatusBadRequest
        /\ resp[p].code = "INVALID_PROJECT_ID"
        /\ Returned(q, {"Get"}) /\ StoreErr(q) = ErrNoRows
        /\ resp[q].status = StatusNotFound
        /\ rows # <<>>

\* the errors of Service.Create that Handler.Create has a branch for
CreateClientErrors == {ErrProjectExists, ErrInvalidUnixName, ValidationErrors}

\* C19: Handler.Create answers 201 exactly when Service.Create returned a
\* project and a nil error, also when Provision failed; ErrProjectExists gives
\* 409, ErrInvalidUnixName and the validator's errors give 400, and every
\* other error gives 500 with the generic message, which is not the text of
\* the error.
C19_CreateStatus ==
    \A p \in Callers :
        Returned(p, {"Create", "Create, invalid JSON"})
            => /\ resp[p].status = StatusCreated
                     <=> (op[p].name = "Create" /\ err[p] = Nil /\ proj[p] # <<>>)
               /\ resp[p].status = StatusCreated => resp[p].body = proj[p]
               /\ (Persisted(p) /\ provErr[p] # Nil)
                     => resp[p].status = StatusCreated
               /\ err[p] = ErrProjectExists => resp[p].status = StatusConflict
               /\ err[p] \in {ErrInvalidUnixName, ValidationErrors}
                     => resp[p].status = StatusBadRequest
               /\ (op[p].name = "Create" /\ err[p] \notin CreateClientErrors \cup {Nil})
                     => /\ resp[p].status = StatusInternalServerError
                        /\ resp[p].message = GenericMessage
                        /\ resp[p].message # err[p]

\* a Create whose Provision failed answered with 201, and a Create whose
\* insert the database failed answered with 500
C19_Witness ==
    \E p, q \in Callers :
        /\ Returned(p, {"Create"}) /\ Persisted(p)
        /\ provErr[p] = ErrProvision
        /\ resp[p].status = StatusCreated /\ resp[p].body = proj[p]
        /\ Returned(q, {"Create"}) /\ err[q] = ErrDb
        /\ resp[q].status = StatusInternalServerError
        /\ resp[q].message = GenericMessage

\* the lines of cliOutput, each by the position of its first character: a
\* line starts at 1 or after a newline and ends before the next newline
Newlines == {i \in 1..Len(cliOutput) : cliOutput[i] = "\n"}
LineStarts == {1} \cup {i + 1 : i \in Newlines}
LineAt(a) ==
    LET ends == {i \in Newlines : i >= a} \cup {Len(cliOutput) + 1}
    IN  SubSeq(cliOutput, a, (CHOOSE e \in ends : \A f \in ends : e <= f) - 1)

\* the line begins with "id:", whatever the case of its letters
BeginsWithID(l) ==
    Len(l) >= 3 /\ l[1] \in {"i", "I"} /\ l[2] \in {"d", "D"} /\ l[3] = ":"

\* t is s without the white space around it
IsTrimmed(t, s) ==
    \E i \in 1..(Len(s) + 1) : \E j \in 0..Len(s) :
        /\ t = SubSeq(s, i, j)
        /\ \A k \in 1..(i - 1) : s[k] \in WhiteSpace
        /\ \A k \in (j + 1)..Len(s) : s[k] \in WhiteSpace
        /\ t # <<>> => (t[1] \notin WhiteSpace /\ t[Len(t)] \notin WhiteSpace)

----------------------------------------------------------------------------
(* C21: config.FromEnv returns an error and the zero Config when LOG_LEVEL is  *)
(* set to a non-empty value outside debug, info, warn, error; otherwise it     *)
(* returns no error, LogLevel equal to LOG_LEVEL, or "info" when LOG_LEVEL is  *)
(* unset or empty, and Debug true exactly when DEBUG equals "true".            *)
C21_FromEnv ==
    [][cfg' # cfg =>
        LET result == cfg'[1]
            given == env["LOG_LEVEL"] # <<>> /\ env["LOG_LEVEL"] # <<"">>
        IN  /\ env' = env
            /\ IF given /\ env["LOG_LEVEL"][1] \notin {"debug", "info", "warn", "error"}
               THEN /\ result.err # Nil
                    /\ result.cfg = [LogLevel |-> "", Debug |-> FALSE]
               ELSE /\ result.err = Nil
                    /\ result.cfg.LogLevel =
                          (IF given THEN env["LOG_LEVEL"][1] ELSE "info")
                    /\ result.cfg.Debug = (env["DEBUG"] = <<"true">>)]_vars

\* FromEnv has refused LOG_LEVEL=verbose while DEBUG=true was set
C21_Witness ==
    /\ env = [k \in EnvNames |-> IF k = "LOG_LEVEL" THEN <<"verbose">> ELSE <<"true">>]
    /\ cfg # <<>>
    /\ cfg[1].err # Nil
    /\ cfg[1].cfg.Debug = FALSE

----------------------------------------------------------------------------
\* the goroutines inside the critical section of a Register, of a Get or List
InRegister == {p \in Goroutines : op[p].name = "Register"
                                  /\ pc[p] \in {"check", "write", "unlock"}}
InLookup == {p \in Goroutines : op[p].name \in {"Registry.Get", "Registry.List"}
                                /\ pc[p] \in {"read", "unlock"}}

(* C22: in every interleaving no Get or List is inside its critical section  *)
(* (reading the map) while a Register is inside its own, and no two          *)
(* Registers are inside together; two lookups, Get with Get or Get with      *)
(* List, can be inside at the same time (the state C22_Witness).             *)
C22_RegistryLock ==
    /\ Cardinality(InRegister) <= 1
    /\ InRegister # {} => InLookup = {}
    /\ \A p \in InRegister : mu.w = p /\ mu.locked
    /\ \A p \in InLookup : p \in mu.readers

\* a Get and a List are inside together, each about to read the map, while a
\* Register waits for them
C22_Witness ==
    \E p, q, r \in Goroutines :
        /\ op[p].name = "Registry.Get" /\ pc[p] = "read"
        /\ op[q].name = "Registry.List" /\ pc[q] = "read"
        /\ op[r].name = "Register" /\ pc[r] = "Lock wait"
        /\ {p, q} \subseteq InLookup

\* the Register calls made for a name
RegistersOf(name) ==
    {p \in Goroutines : op[p].name = "Register" /\ PluginName(op[p].impl) = name}

(* C30: when two or more Register calls for implementations with the same   *)
(* name have run on the empty registry, in any interleaving, exactly one has *)
(* returned nil, all others have returned the duplicate-name error, and      *)
(* Get(name) returns the implementation of the call that succeeded.          *)
C30_ConcurrentRegister ==
    \A name \in RegistryKeys :
        LET calls == RegistersOf(name) IN
        (Cardinality(calls) >= 2 /\ \A p \in calls : pc[p] = "returned") =>
            \E w \in calls :
                /\ err[w] = Nil
                /\ \A o \in calls \ {w} : err[o] = ErrAlreadyRegistered
                /\ name \in DOMAIN plugins
                /\ plugins[name] = op[w].impl

\* three Register calls for the name proxmox have returned: the one of c2,
\* for pveB, has succeeded
C30_Witness ==
    /\ RegistersOf(ProxmoxName) = Goroutines
    /\ \A p \in Goroutines : pc[p] = "returned"
    /\ op["c1"].impl = "pveA" /\ op["c2"].impl = "pveB"
    /\ err["c2"] = Nil
    /\ plugins[ProxmoxName] = "pveB"

----------------------------------------------------------------------------
\* the Provision events of p's trace
ProvisionEvents(p) == {i \in 1..Len(trace[p]) : trace[p][i].call = "Provision"}

(* C23: Create runs synchronously, with no background worker: a Provision    *)
(* call runs only while the Create that made it is inside it, so a Create    *)
(* that found the provider has not returned before its Provision call has,   *)
(* and no Provision call started by a Create is running once that Create has *)
(* returned or its goroutine has gone on to another call.                    *)
C23_CreateSynchronous ==
    \A p \in Callers :
        /\ running[p] => InCreate(p) /\ pc[p] = "provisioning"
        /\ (InCreate(p) /\ CalledWith(p, "registry.Get", Nil)) =>
              /\ Called(p, "Provision")
              /\ pc[p] = "returned" => ~running[p]
              /\ pc[p] # "returned" => running[p]

\* a Create has returned after its failed Provision call returned, while the
\* Create of the other goroutine is inside Provision
C23_Witness ==
    \E p, q \in Callers :
        /\ CreateReturned(p) /\ Called(p, "Provision") /\ ~running[p]
        /\ provErr[p] = ErrProvision
        /\ InCreate(q) /\ pc[q] = "provisioning" /\ running[q]

----------------------------------------------------------------------------
(* C25: a Create call whose Provision returned an error has written exactly  *)
(* one log entry, a warning that carries the identifier of the persisted     *)
(* project and the error; a call has written no log entry when Provision     *)
(* succeeded, when the provider was absent, when Create failed before        *)
(* provisioning, and while Provision has not returned.                       *)
C25_ProvisionFailureLogged ==
    \A p \in Callers :
        IF CreateReturned(p) /\ Called(p, "Provision") /\ provErr[p] # Nil
        THEN /\ Persisted(p)
             /\ \E u \in 1..issued : Held(p).ID = UUIDString(u)
             /\ logs[p] = <<[level |-> "WARN", msg |-> "provisioning failed",
                             project_id |-> Held(p).ID, error |-> provErr[p]]>>
        ELSE logs[p] = <<>>

\* one Create has returned after a failed Provision, with its warning; the
\* other has returned after a Provision that succeeded, with no entry
C25_Witness ==
    \E p, q \in Callers :
        /\ CreateReturned(p) /\ provErr[p] = ErrProvision /\ Len(logs[p]) = 1
        /\ logs[p][1].project_id = UUIDString(1)
        /\ CreateReturned(q) /\ Called(q, "Provision") /\ provErr[q] = Nil
        /\ logs[q] = <<>>

----------------------------------------------------------------------------
\* in this step caller p makes a call of one of the names, and the call returns
CallStep(p, names) ==
    pc[p] = "idle" /\ pc'[p] = "returned" /\ op'[p].name \in names

StoreCalls == {"store.GetByID", "store.List", "store.Update", "store.Delete"}

(* C24: only Create touches providers: a call of Service.Get, List, Update   *)
(* or Delete makes one call, of the store, and none of the registry, of      *)
(* Provision, Status or Deprovision; it starts no Provision call and leaves  *)
(* the registry as it is. So a Delete that succeeds makes no call for the    *)
(* resource provisioned for its project.                                     *)
C24_OnlyCreateTouchesProviders ==
    [][\A p \in Callers :
          CallStep(p, {"Get", "List", "Update", "Delete"}) =>
              /\ Len(trace'[p]) = 1
              /\ trace'[p][1].call \in StoreCalls
              /\ provCall'[p] = <<>>
              /\ running' = running
              /\ provisions' = provisions
              /\ plugins' = plugins]_vars

\* the Delete of the one project created, for which Provision was called,
\* has succeeded with the provider registered
C24_Witness ==
    \E p \in Callers :
        /\ Returned(p, {"Delete"}) /\ err[p] = Nil
        /\ trace[p] = <<Event("store.Delete", Nil)>>
        /\ issued = 1 /\ provisions = 1 /\ deleted = {1}
        /\ ProxmoxName \in DOMAIN plugins

(* C27: once a Delete(id) has returned no error, every later Get(id),        *)
(* Update(id, _) and Delete(id) that the database answers fails with         *)
(* ErrProjectNotFound, a second Delete of the id included; the row of a      *)
(* deleted id is not in the table (no later Create gets the id again:        *)
(* uuid.New).                                                                *)
C27_DeletedStaysNotFound ==
    [][/\ deleted' \cap DOMAIN rows' = {}
       /\ \A p \in Callers :
             (/\ CallStep(p, {"Get", "Update", "Delete"})
              /\ UUIDParse(op'[p].id).err = Nil
              /\ UUIDParse(op'[p].id).uuid \in deleted
              /\ trace'[p][1].res # ErrDb)
             => err'[p] = ErrProjectNotFound]_vars

\* a second Delete of the id of a deleted project has returned
\* ErrProjectNotFound
C27_Witness ==
    \E p \in Callers :
        /\ Returned(p, {"Delete"})
        /\ op[p].id = UUIDString(1) /\ 1 \in deleted
        /\ trace[p] = <<Event("store.Delete", ErrNoRows)>>
        /\ err[p] = ErrProjectNotFound

\* the results of registry.Get in p's trace
RegistryGetResults(p) ==
    {trace[p][i].res : i \in {j \in 1..Len(trace[p]) : trace[p][j].call = "registry.Get"}}

(* C29: whatever error s.registry.Get("proxmox") returns, ErrPluginNotFound  *)
(* or another, Create makes no Provision call, logs nothing, and returns     *)
(* the project it persisted with a nil error.                                *)
C29_AnyLookupErrorSkips ==
    \A p \in Callers :
        (InCreate(p) /\ RegistryGetResults(p) \ {Nil} # {}) =>
            /\ ~Called(p, "Provision") /\ provCall[p] = <<>> /\ ~running[p]
            /\ logs[p] = <<>>
            /\ pc[p] = "returned" /\ err[p] = Nil
            /\ Persisted(p) /\ proj[p] # <<>>
            /\ Held(p).ID = UUIDString(issued)
            /\ Held(p).UnixName = op[p].req.UnixName
            /\ Held(p).Name = op[p].req.Name

\* a Create whose registry lookup failed with an error that is not
\* ErrPluginNotFound has returned its project
C29_Witness ==
    \E p \in Callers :
        /\ CreateReturned(p) /\ CalledWith(p, "registry.Get", ErrRegistry)
        /\ err[p] = Nil /\ proj[p] # <<>>

----------------------------------------------------------------------------
\* the provider was registered before the first call: it is the one main
\* registers
RegisteredThroughout ==
    ProxmoxName \in DOMAIN plugins /\ plugins[ProxmoxName] = "pveA"

(* C26: over any sequence of Create calls a call invokes Provision at most   *)
(* once, with no retry after a failure, and the ProjectID passed is the id   *)
(* of the record store.Create returned in that call; so the number of        *)
(* Provision calls never exceeds the number of store.Create calls that       *)
(* succeeded, and with the provider registered throughout the two are equal  *)
(* but for the calls that are between store.Create and Provision.            *)
C26_ProvisionOncePerCreate ==
    /\ provisions <= issued
    /\ RegisteredThroughout =>
          provisions + Cardinality({p \in Callers : pc[p] = "lookup"}) = issued
    /\ \A p \in Callers :
          /\ Cardinality(ProvisionEvents(p)) <= 1
          /\ Called(p, "Provision") <=> provCall[p] # <<>>
          /\ provCall[p] # <<>> =>
                /\ Persisted(p)
                /\ provCall[p][1].req.ProjectID = Held(p).ID
                /\ \E u \in 1..issued : Held(p).ID = UUIDString(u)
                /\ \A q \in Callers \ {p} :
                      provCall[q] # <<>> =>
                          provCall[q][1].req.ProjectID # provCall[p][1].req.ProjectID

\* two Create calls have succeeded and Provision was called twice; the call
\* whose Provision failed has returned without a second try
C26_Witness ==
    /\ issued = 2 /\ provisions = 2
    /\ \A p \in Callers : CreateReturned(p) /\ Cardinality(ProvisionEvents(p)) = 1
    /\ \E p \in Callers : provErr[p] = ErrProvision

----------------------------------------------------------------------------
====
